---- MODULE Spec2Model ----
(***************************************************************************)
(* Octopus Intelligent (Home Assistant integration): the dataset built by  *)
(* one poll cycle of OctopusIntelligentSystem, the dispatch-source         *)
(* fallback kept across polls, and the off-peak / dispatch window queries  *)
(* answered from the current dataset and the wall clock.                   *)
(*                                                                         *)
(* Time is counted in seconds since 00:00:00 UTC of day 0.  The local      *)
(* timezone is a fixed offset tz from UTC for the whole run.               *)
(***************************************************************************)
EXTENDS Integers, Sequences, FiniteSets, TLC

VARIABLES
    now,                \* dt_util.utcnow(), seconds
    tz,                 \* offset of the local timezone from UTC, seconds
    off_peak_start,     \* self._off_peak_start, seconds after local midnight
    off_peak_end,       \* self._off_peak_end, seconds after local midnight
    data,               \* self.data, the dataset of the last successful poll
    last_seen_planned_dispatch_sources, \* self._persistent_data, per device
    last_seen_planned_dispatch_source,  \* self._persistent_data, global
    primary_equipment_id,               \* self._primary_equipment_id
    poll,               \* the running _async_update_data coroutine
    polls,              \* poll cycles started so far
    date_ranges,        \* argument of a merge_and_sort_time_ranges call
    merged_date_ranges, \* its result
    answer,             \* what the last query call returned
    action,             \* the running action coroutine (switch, select)
    session,            \* client._session, the cached GraphQL session
    requests,           \* the requests sent to the API by the last action
    entity              \* what a binary sensor's helper was given and returned

vars == <<now, tz, off_peak_start, off_peak_end, data,
          last_seen_planned_dispatch_sources,
          last_seen_planned_dispatch_source, primary_equipment_id, poll,
          polls, date_ranges, merged_date_ranges, answer, action, session,
          requests, entity>>

\* The variables of the query and action calls
callVars == <<answer, action, session, requests, entity>>

-----------------------------------------------------------------------------
(* Units *)

SecondsPerMinute == 60
MinutesPerHour == 60
SecondsPerHour == 3600
SecondsPerDay == 86400

(* Python None / a falsy str, for the values that are strings in the code *)
None == "<None>"
NoDevice == ""          \* device_id=None: every test on it is a truthiness test
NoTime == -1            \* None where the code holds a datetime
NoRange == [start |-> NoTime, end |-> NoTime]   \* None where it holds a range

EmptyDict == [key \in {} |-> None]

SMART_CHARGE == "smart-charge"
BUMP_CHARGE == "bump-charge"

Max(a, b) == IF a >= b THEN a ELSE b

-----------------------------------------------------------------------------
(* Timestamps as the API sends them and as the dataset stores them.        *)
(* A timestamp string is modelled by its kind, the wall-clock instant it   *)
(* spells (seconds) and the UTC offset it spells (seconds):                *)
(*   "null"   no value (None, absent or "")                                *)
(*   "isoZ"   2024-02-25T02:00:00Z                                         *)
(*   "isoOff" 2024-02-25T03:00:00+01:00                                    *)
(*   "naive"  2024-02-25T02:00:00         (ISO, no offset)                 *)
(*   "text"   anything datetime.fromisoformat rejects                      *)
(*   "canon"  2024-02-25 03:00:00+0100    (%Y-%m-%d %H:%M:%S%z)            *)
(*   "bare"   2024-02-25 02:00:00         (the same with an empty %z)      *)

Ts(k, wall, off) == [k |-> k, wall |-> wall, off |-> off]
NullTs == Ts("null", 0, 0)

\* _format_dispatch_time: None for a falsy value; an ISO string is re-written
\* with strftime("%Y-%m-%d %H:%M:%S%z"), which keeps wall clock and offset and
\* writes nothing for %z when the value has no offset; any other string is
\* kept, with T replaced by a space.
_format_dispatch_time(value) ==
    CASE value.k = "null" -> NullTs
      [] value.k = "isoZ" -> Ts("canon", value.wall, 0)
      [] value.k = "isoOff" -> Ts("canon", value.wall, value.off)
      [] value.k = "naive" -> Ts("bare", value.wall, 0)
      [] OTHER -> Ts("text", value.wall, value.off)

\* Faulty variant of _parse_dispatch_datetime: a string without an offset is
\* read as UTC instead of being rejected.
ParseAssumingUtc(value) ==
    IF value.k = "canon" THEN value.wall - value.off
    ELSE IF value.k = "bare" THEN value.wall ELSE NoTime

\* _parse_dispatch_datetime: strptime(value, '%Y-%m-%d %H:%M:%S%z') converted
\* to UTC; None for None and for a string strptime rejects.
_parse_dispatch_datetime(value) ==
    IF value.k = "canon" THEN value.wall - value.off ELSE NoTime

-----------------------------------------------------------------------------
(* util.merge_and_sort_time_ranges *)

Range(s, e) == [start |-> s, end |-> e]

\* sorted(date_ranges, key=lambda r: r["start"]): a stable sort, so a range
\* goes behind every range already placed whose start is not greater.
RECURSIVE InsertByStart(_, _)
InsertByStart(sorted, r) ==
    IF sorted = <<>> THEN <<r>>
    ELSE IF sorted[Len(sorted)]["start"] <= r["start"] THEN Append(sorted, r)
    ELSE Append(InsertByStart(SubSeq(sorted, 1, Len(sorted) - 1), r),
                sorted[Len(sorted)])

RECURSIVE SortedByStart(_)
SortedByStart(ranges) ==
    IF ranges = <<>> THEN <<>>
    ELSE InsertByStart(SortedByStart(SubSeq(ranges, 1, Len(ranges) - 1)),
                       ranges[Len(ranges)])

\* Faulty variant of MergeStep: ranges that only touch are not merged.
MergeStepStrict(merged, next_range) ==
    LET current == merged[Len(merged)] IN
    IF current["end"] > next_range["start"]
    THEN [merged EXCEPT ![Len(merged)]["end"] =
              Max(current["end"], next_range["end"])]
    ELSE Append(merged, next_range)

\* One turn of the loop over sorted_ranges[1:]: extend the last merged range
\* when it reaches the start of next_range, else append next_range.
MergeStep(merged, next_range) ==
    LET current == merged[Len(merged)] IN
    IF current["end"] >= next_range["start"]
    THEN [merged EXCEPT ![Len(merged)]["end"] =
              Max(current["end"], next_range["end"])]
    ELSE Append(merged, next_range)

\* Faulty variant of the loop: next_range is compared with the range before
\* it in sorted_ranges instead of the last merged range.
RECURSIVE MergeAgainst(_, _, _)
MergeAgainst(merged, previous, rest) ==
    IF rest = <<>> THEN merged
    ELSE MergeAgainst(
           IF previous["end"] >= Head(rest)["start"]
           THEN [merged EXCEPT ![Len(merged)]["end"] =
                    Max(merged[Len(merged)]["end"], Head(rest)["end"])]
           ELSE Append(merged, Head(rest)),
           Head(rest), Tail(rest))
MergeLoopAgainstPrevious(merged, rest) ==
    MergeAgainst(merged, merged[Len(merged)], rest)

RECURSIVE MergeLoop(_, _)
MergeLoop(merged, rest) ==
    IF rest = <<>> THEN merged
    ELSE MergeLoop(MergeStep(merged, Head(rest)), Tail(rest))

merge_and_sort_time_ranges(ranges) ==
    IF ranges = <<>> THEN <<>>
    ELSE LET sorted_ranges == SortedByStart(ranges) IN
         MergeLoop(<<sorted_ranges[1]>>, Tail(sorted_ranges))

-----------------------------------------------------------------------------
(* homeassistant.util.dt, for a timezone at a fixed offset from UTC *)

as_local(utc) == utc + tz
as_utc(local) == local - tz
start_of_local_day(local) == local - (local % SecondsPerDay)

\* datetime.hour and datetime.minute of a local wall-clock instant
HourOf(local) == (local % SecondsPerDay) \div SecondsPerHour
MinuteOf(local) == (local % SecondsPerHour) \div SecondsPerMinute

-----------------------------------------------------------------------------
(* The dataset: self.data.  devices is the dict device id -> device state, *)
(* ids its keys in insertion order, plannedDispatches the union list.      *)

NoData == [loaded |-> FALSE, ids |-> <<>>, devices |-> <<>>,
           plannedDispatches |-> <<>>, primary_equipment_id |-> NoDevice]

HasDevice(d, device_id) == \E i \in 1..Len(d.ids) : d.ids[i] = device_id

\* get_primary_equipment_id
get_primary_equipment_id(d) ==
    IF d.loaded /\ d.primary_equipment_id # NoDevice
    THEN d.primary_equipment_id
    ELSE primary_equipment_id

\* _get_device_state: the id looked up, NoDevice when there is no state
DeviceLookup(d, device_id) ==
    LET lookup_id == IF device_id # NoDevice THEN device_id
                     ELSE get_primary_equipment_id(d) IN
    IF lookup_id # NoDevice /\ HasDevice(d, lookup_id)
    THEN lookup_id ELSE NoDevice

\* Faulty variant of is_smart_charging_enabled: isSuspended is looked up on
\* the device state instead of its status, where it never is.
EnabledIgnoringStatus(d, device_id) == DeviceLookup(d, device_id) # NoDevice

\* is_smart_charging_enabled: False without a device state, else
\* not status.get("isSuspended", False)
is_smart_charging_enabled(d, device_id) ==
    LET id == DeviceLookup(d, device_id) IN
    IF id = NoDevice THEN FALSE
    ELSE LET status == d.devices[id].status IN
         ~ (("isSuspended" \in DOMAIN status) /\ status["isSuspended"])

-----------------------------------------------------------------------------
(* The queries of OctopusIntelligentSystem, each over a dataset d (self.data *)
(* in the program) and the clock.                                          *)

\* dict.get(key, default) on a dispatch's meta
MetaGet(state, key, default) ==
    IF key \in DOMAIN state.meta THEN state.meta[key] ELSE default

\* Faulty variant of BaseOffpeakRanges: every window takes start and end from
\* the same local day, wrapping or not.
BaseOffpeakRangesUnpaired(utcnow) ==
    LET localdate == start_of_local_day(as_local(utcnow))
    IN  << Range(as_utc(localdate - SecondsPerDay + off_peak_start),
                 as_utc(localdate - SecondsPerDay + off_peak_end)),
           Range(as_utc(localdate + off_peak_start),
                 as_utc(localdate + off_peak_end)),
           Range(as_utc(localdate + SecondsPerDay + off_peak_start),
                 as_utc(localdate + SecondsPerDay + off_peak_end)) >>

\* The three fixed windows around the local day of utcnow; a window that
\* wraps past midnight takes its end from the following day.
BaseOffpeakRanges(utcnow) ==
    LET localdate == start_of_local_day(as_local(utcnow))
        fixed_start_b1 == as_utc(localdate - SecondsPerDay + off_peak_start)
        fixed_end_b1 == as_utc(localdate - SecondsPerDay + off_peak_end)
        fixed_start_0 == as_utc(localdate + off_peak_start)
        fixed_end_0 == as_utc(localdate + off_peak_end)
        fixed_start_a1 == as_utc(localdate + SecondsPerDay + off_peak_start)
        fixed_end_a1 == as_utc(localdate + SecondsPerDay + off_peak_end)
        fixed_end_a2 == as_utc(localdate + 2 * SecondsPerDay + off_peak_end)
    IN  IF fixed_start_b1 > fixed_end_b1
        THEN << Range(fixed_start_b1, fixed_end_0),
                Range(fixed_start_0, fixed_end_a1),
                Range(fixed_start_a1, fixed_end_a2) >>
        ELSE << Range(fixed_start_b1, fixed_end_b1),
                Range(fixed_start_0, fixed_end_0),
                Range(fixed_start_a1, fixed_end_a1) >>

\* The loop of next_offpeak_range_utc over plannedDispatches: the ranges it
\* appends to targeted_dispatches (device_id given) or combined_dispatches.
RECURSIVE CollectDispatches(_, _, _)
CollectDispatches(d, states, device_id) ==
    IF states = <<>> THEN <<>>
    ELSE
      LET state == Head(states)
          rest == CollectDispatches(d, Tail(states), device_id)
          startUtc == _parse_dispatch_datetime(state.startDtUtc)
          endUtc == _parse_dispatch_datetime(state.endDtUtc)
          meta_device == MetaGet(state, "deviceId", None)
      IN  IF MetaGet(state, "source", "") # SMART_CHARGE THEN rest
          ELSE IF startUtc = NoTime \/ endUtc = NoTime THEN rest
          ELSE IF device_id # NoDevice
               THEN IF meta_device = device_id
                    THEN <<Range(startUtc, endUtc)>> \o rest ELSE rest
          ELSE IF meta_device # None /\ meta_device # ""
                  /\ ~ is_smart_charging_enabled(d, meta_device) THEN rest
          ELSE <<Range(startUtc, endUtc)>> \o rest

\* Faulty variant of CandidateRanges: the fixed windows are candidates of a
\* device-scoped call too.
CandidateRangesAlwaysFixed(d, utcnow, device_id) ==
    BaseOffpeakRanges(utcnow)
        \o CollectDispatches(d, d.plannedDispatches, device_id)

CandidateRanges(d, utcnow, device_id) ==
    LET base_offpeak_ranges == BaseOffpeakRanges(utcnow)
        collected == CollectDispatches(d, d.plannedDispatches, device_id)
    IN  IF device_id # NoDevice
        THEN (IF collected # <<>> THEN collected ELSE base_offpeak_ranges)
        ELSE base_offpeak_ranges \o collected

\* Faulty variant of FirstOffpeakRange: only a range that holds utcnow counts.
RECURSIVE FirstContainingRange(_, _)
FirstContainingRange(offpeak_ranges, utcnow) ==
    IF offpeak_ranges = <<>> THEN NoRange
    ELSE IF Head(offpeak_ranges)["start"] <= utcnow
            /\ utcnow <= Head(offpeak_ranges)["end"]
         THEN Head(offpeak_ranges)
         ELSE FirstContainingRange(Tail(offpeak_ranges), utcnow)

\* The final loop: the first merged range that holds utcnow or lies ahead.
RECURSIVE FirstOffpeakRange(_, _)
FirstOffpeakRange(offpeak_ranges, utcnow) ==
    IF offpeak_ranges = <<>> THEN NoRange
    ELSE LET startUtc == Head(offpeak_ranges)["start"]
             endUtc == Head(offpeak_ranges)["end"]
         IN  IF (startUtc <= utcnow /\ utcnow <= endUtc) \/ utcnow <= startUtc
             THEN Head(offpeak_ranges)
             ELSE FirstOffpeakRange(Tail(offpeak_ranges), utcnow)

next_offpeak_range_utc(d, minutes_offset, device_id) ==
    LET utcnow == now + minutes_offset * SecondsPerMinute
        candidate_ranges == CandidateRanges(d, utcnow, device_id)
    IN  IF candidate_ranges = <<>> THEN NoRange
        ELSE FirstOffpeakRange(merge_and_sort_time_ranges(candidate_ranges),
                               utcnow)

next_offpeak_start_utc(d, minutes_offset, device_id) ==
    next_offpeak_range_utc(d, minutes_offset, device_id)["start"]

\* The dispatches is_charging_now scans: all, or those of device_id
DispatchesOf(d, device_id) ==
    IF device_id # NoDevice
    THEN SelectSeq(d.plannedDispatches,
                   LAMBDA state : MetaGet(state, "deviceId", None) = device_id)
    ELSE d.plannedDispatches

RECURSIVE ChargingScan(_, _, _)
ChargingScan(dispatches, source, utcnow) ==
    IF dispatches = <<>> THEN FALSE
    ELSE LET state == Head(dispatches)
             startUtc == _parse_dispatch_datetime(state.startDtUtc)
             endUtc == _parse_dispatch_datetime(state.endDtUtc)
         IN  IF source = None \/ MetaGet(state, "source", "") = source
             THEN IF startUtc = NoTime \/ endUtc = NoTime
                  THEN ChargingScan(Tail(dispatches), source, utcnow)
                  ELSE IF startUtc <= utcnow /\ utcnow <= endUtc THEN TRUE
                  ELSE ChargingScan(Tail(dispatches), source, utcnow)
             ELSE ChargingScan(Tail(dispatches), source, utcnow)

is_charging_now(d, source, minutes_offset, device_id) ==
    ChargingScan(DispatchesOf(d, device_id), source,
                 now + minutes_offset * SecondsPerMinute)

\* Faulty variant of is_off_peak_time_now: the end minute is excluded.
OffPeakTimeEndExclusive(minutes_offset) ==
    LET local == as_local(now + minutes_offset * SecondsPerMinute)
        offpeak_start_mins == off_peak_start \div SecondsPerMinute
        offpeak_end_mins == off_peak_end \div SecondsPerMinute
        now_mins == HourOf(local) * MinutesPerHour + MinuteOf(local)
    IN  IF offpeak_end_mins < offpeak_start_mins
        THEN now_mins >= offpeak_start_mins \/ now_mins < offpeak_end_mins
        ELSE offpeak_start_mins <= now_mins /\ now_mins < offpeak_end_mins

is_off_peak_time_now(minutes_offset) ==
    LET local == as_local(now + minutes_offset * SecondsPerMinute)
        offpeak_start_mins == off_peak_start \div SecondsPerMinute
        offpeak_end_mins == off_peak_end \div SecondsPerMinute
        now_mins == HourOf(local) * MinutesPerHour + MinuteOf(local)
    IN  IF offpeak_end_mins < offpeak_start_mins
        THEN now_mins >= offpeak_start_mins \/ now_mins <= offpeak_end_mins
        ELSE offpeak_start_mins <= now_mins /\ now_mins <= offpeak_end_mins

\* Faulty variant of is_off_peak_now: the offset is not passed on to
\* is_charging_now.
OffPeakNowDroppingOffset(d, minutes_offset) ==
    is_off_peak_time_now(minutes_offset)
    \/ is_charging_now(d, SMART_CHARGE, 0, NoDevice)

is_off_peak_now(d, minutes_offset) ==
    is_off_peak_time_now(minutes_offset)
    \/ is_charging_now(d, SMART_CHARGE, minutes_offset, NoDevice)

is_device_off_peak_now(d, device_id, minutes_offset) ==
    IF device_id = NoDevice THEN is_off_peak_now(d, minutes_offset)
    ELSE is_charging_now(d, SMART_CHARGE, minutes_offset, device_id)

\* current_intelligent_charge_start_utc: the start of the first smart-charge
\* dispatch that holds utcnow, else the earliest start after utcnow
\* (next_start), else the start of the next off-peak range.
RECURSIVE ChargeStartScan(_, _, _, _)
ChargeStartScan(d, states, device_id, next_start) ==
    IF states = <<>>
    THEN IF next_start # NoTime THEN next_start
         ELSE next_offpeak_start_utc(d, 0, device_id)
    ELSE
      LET state == Head(states)
          start_utc == _parse_dispatch_datetime(state.startDtUtc)
          end_utc == _parse_dispatch_datetime(state.endDtUtc)
      IN  IF MetaGet(state, "source", None) # SMART_CHARGE
          THEN ChargeStartScan(d, Tail(states), device_id, next_start)
          ELSE IF device_id # NoDevice
                  /\ MetaGet(state, "deviceId", None) # device_id
          THEN ChargeStartScan(d, Tail(states), device_id, next_start)
          ELSE IF start_utc = NoTime \/ end_utc = NoTime
          THEN ChargeStartScan(d, Tail(states), device_id, next_start)
          ELSE IF start_utc <= now /\ now <= end_utc THEN start_utc
          ELSE IF start_utc > now
                  /\ (next_start = NoTime \/ start_utc < next_start)
          THEN ChargeStartScan(d, Tail(states), device_id, start_utc)
          ELSE ChargeStartScan(d, Tail(states), device_id, next_start)

\* Faulty variant: the device filter of line 506 is left out
ChargeStartOfAnyDevice(d, device_id) ==
    ChargeStartScan(d, d.plannedDispatches, NoDevice, NoTime)

current_intelligent_charge_start_utc(d, device_id) ==
    ChargeStartScan(d, d.plannedDispatches, device_id, NoTime)

-----------------------------------------------------------------------------
(* get_ready_time_summary.  A value that is a str or None is a record: k    *)
(* says which, parts are the numbers between the colons of a zero-padded    *)
(* time string ("07:30" is <<7, 30>>, "07:30:00" is <<7, 30, 0>>, "" is     *)
(* <<>>).                                                                   *)

TimeStr(parts) == [k |-> "str", parts |-> parts]
NoneStr == [k |-> "None", parts |-> <<>>]

\* a < b for two str of zero-padded numbers: the first part that differs
\* decides, and a proper prefix is less
RECURSIVE PartsLess(_, _)
PartsLess(a, b) ==
    IF b = <<>> THEN FALSE
    ELSE IF a = <<>> THEN TRUE
    ELSE IF Head(a) # Head(b) THEN Head(a) < Head(b)
    ELSE PartsLess(Tail(a), Tail(b))

\* util.normalize_time_string: None for a non-str and for an empty string;
\* HH:MM for HH:MM:00; any other string as it is
normalize_time_string(value) ==
    IF value.k # "str" THEN NoneStr
    ELSE IF value.parts = <<>> THEN NoneStr
    ELSE IF Len(value.parts) = 3 /\ value.parts[3] = 0
    THEN TimeStr(SubSeq(value.parts, 1, 2))
    ELSE value

\* preferences.get(key)
PreferenceGet(preferences, key) ==
    IF key \in DOMAIN preferences THEN preferences[key] ELSE NoneStr

\* datetime.weekday() of a local instant; day 0 of the model is a Monday
DaysPerWeek == 7
Weekday(local) == (local \div SecondsPerDay) % DaysPerWeek

get_active_target_key ==
    IF Weekday(as_local(now)) >= 5 THEN "weekendTargetTime"
    ELSE "weekdayTargetTime"

\* util.format_equipment_name for a descriptor without label, make, model
\* and provider: the fallback f"Equipment {device_id}"
format_equipment_name(device, fallback) == fallback

\* The DeviceTargetSchedule built for one device id
DeviceTargetSchedule(d, current_device_id, target_key) ==
    LET id == DeviceLookup(d, current_device_id)
        preferences == IF id = NoDevice THEN EmptyDict
                       ELSE d.devices[id].preferences
        device == IF id = NoDevice THEN EmptyDict ELSE d.devices[id].device
    IN  [ device_id |-> current_device_id,
          label |-> format_equipment_name(device,
                                          <<"Equipment", current_device_id>>),
          weekday_target_time |->
              normalize_time_string(
                  PreferenceGet(preferences, "weekdayTargetTime")),
          weekend_target_time |->
              normalize_time_string(
                  PreferenceGet(preferences, "weekendTargetTime")),
          active_target_time |->
              normalize_time_string(PreferenceGet(preferences, target_key)) ]

\* DeviceTargetSchedule.has_active_target: bool(self.active_target_time)
has_active_target(entry) ==
    entry.active_target_time.k = "str"
    /\ entry.active_target_time.parts # <<>>

NoEntry == [ device_id |-> NoDevice, label |-> <<>>,
             weekday_target_time |-> NoneStr, weekend_target_time |-> NoneStr,
             active_target_time |-> NoneStr ]

\* Faulty variant of ActiveEntry: an entry with an equal time replaces the
\* one chosen before.
RECURSIVE ActiveEntryLastWins(_, _)
ActiveEntryLastWins(device_targets, active_entry) ==
    IF device_targets = <<>> THEN active_entry
    ELSE LET entry == Head(device_targets) IN
         IF ~ has_active_target(entry)
         THEN ActiveEntryLastWins(Tail(device_targets), active_entry)
         ELSE IF active_entry = NoEntry
                 \/ ~ PartsLess(active_entry.active_target_time.parts,
                                entry.active_target_time.parts)
         THEN ActiveEntryLastWins(Tail(device_targets), entry)
         ELSE ActiveEntryLastWins(Tail(device_targets), active_entry)

\* The loop that picks active_entry: the first entry with an active target,
\* replaced by a later one whose time is less
RECURSIVE ActiveEntry(_, _)
ActiveEntry(device_targets, active_entry) ==
    IF device_targets = <<>> THEN active_entry
    ELSE LET entry == Head(device_targets) IN
         IF ~ has_active_target(entry)
         THEN ActiveEntry(Tail(device_targets), active_entry)
         ELSE IF active_entry = NoEntry
                 \/ PartsLess(entry.active_target_time.parts,
                              active_entry.active_target_time.parts)
         THEN ActiveEntry(Tail(device_targets), entry)
         ELSE ActiveEntry(Tail(device_targets), active_entry)

get_ready_time_summary(d, device_id) ==
    LET target_key == get_active_target_key
        mode == IF target_key = "weekendTargetTime" THEN "weekend"
                ELSE "weekday"
        device_ids == IF device_id # NoDevice THEN <<device_id>> ELSE d.ids
        device_targets ==
            [i \in 1..Len(device_ids) |->
                DeviceTargetSchedule(d, device_ids[i], target_key)]
        active_entry == ActiveEntry(device_targets, NoEntry)
    IN  [ mode |-> mode,
          active_target_key |-> target_key,
          active_target_time |-> active_entry.active_target_time,
          target_device_id |-> active_entry.device_id,
          target_device_label |-> active_entry.label,
          device_targets |-> device_targets ]

-----------------------------------------------------------------------------
(* Normalisation of one device's planned dispatches                        *)

Truthy(value) == value # None /\ value # ""


\* dict.setdefault(key, value): sets the key only when the dict lacks it
SetDefault(dict, key, value) ==
    IF key \in DOMAIN dict THEN dict
    ELSE [k \in DOMAIN dict \cup {key} |-> IF k = key THEN value ELSE dict[k]]

\* One entry of _normalise_planned_dispatches.  A raw planned dispatch has
\* start, end and type (the query asks for no meta, so the source is the type
\* when it is truthy and None otherwise); chargeKwh and location are left out.
NormalisedEntry(device_id, dispatch) ==
    [ startDtUtc |-> _format_dispatch_time(dispatch.start),
      endDtUtc |-> _format_dispatch_time(dispatch.end),
      meta |-> [ source |-> IF Truthy(dispatch.type) THEN dispatch.type
                            ELSE None,
                 deviceId |-> device_id ] ]

GoodSources(dispatches) ==
    { MetaGet(dispatches[i], "source", "") : i \in 1..Len(dispatches) }
        \ {None, ""}

\* Faulty variant of SelectedSource: with several sources in the batch one of
\* them is selected all the same.
SelectedSourceAny(dispatches) ==
    LET good_sources == GoodSources(dispatches) IN
    IF good_sources # {}
    THEN CHOOSE src \in good_sources : TRUE ELSE ""

\* selected_source: the one non-empty source of the batch, "" when there is
\* none or more than one
SelectedSource(dispatches) ==
    LET good_sources == GoodSources(dispatches) IN
    IF Cardinality(good_sources) = 1
    THEN CHOOSE src \in good_sources : TRUE ELSE ""

\* _update_planned_dispatch_sources, as the triple it leaves behind: the
\* batch, the per-device fallbacks and the global fallback.
_update_planned_dispatch_sources(device_id, dispatches, sources, source) ==
    IF dispatches = <<>>
    THEN [dispatches |-> dispatches, sources |-> sources, source |-> source]
    ELSE
      LET selected_source == SelectedSource(dispatches)
          sources1 == IF Truthy(selected_source)
                      THEN [k \in DOMAIN sources \cup {device_id} |->
                               IF k = device_id THEN selected_source
                               ELSE sources[k]]
                      ELSE sources
          source1 == IF Truthy(selected_source) THEN selected_source
                     ELSE source
          fallback_source == IF device_id \in DOMAIN sources1
                             THEN sources1[device_id] ELSE source1
          missing == \E i \in 1..Len(dispatches) :
                         ~ Truthy(MetaGet(dispatches[i], "source", ""))
      IN  [ dispatches |->
                IF Truthy(fallback_source) /\ missing
                THEN [i \in 1..Len(dispatches) |->
                        [dispatches[i] EXCEPT !.meta =
                            SetDefault(@, "source", fallback_source)]]
                ELSE dispatches,
            sources |-> sources1,
            source |-> source1 ]

\* Faulty variant of _normalise_planned_dispatches: the global fallback is
\* not updated with the per-device one.
NormaliseKeepingGlobalSource(device_id, dispatches, sources, source) ==
    [ _update_planned_dispatch_sources(
          device_id,
          [i \in 1..Len(dispatches) |-> NormalisedEntry(device_id, dispatches[i])],
          sources, source) EXCEPT !.source = source ]

_normalise_planned_dispatches(device_id, dispatches, sources, source) ==
    _update_planned_dispatch_sources(
        device_id,
        [i \in 1..Len(dispatches) |-> NormalisedEntry(device_id, dispatches[i])],
        sources, source)

\* _build_device_status: the descriptor's status, overlaid with isSuspended of
\* the preferences query when that has one (currentState is left out)
_build_device_status(device, preferences) ==
    IF "isSuspended" \in DOMAIN preferences.status
    THEN [k \in DOMAIN device.status \cup {"isSuspended"} |->
             IF k = "isSuspended" THEN preferences.status["isSuspended"]
             ELSE device.status[k]]
    ELSE device.status

-----------------------------------------------------------------------------
(* The end of a poll cycle *)

\* Order of two stored timestamp strings under Python's str comparison.  Date
\* strings have fixed-width fields, so they order by wall clock and then by
\* the suffix ("" before "+hhmm" before "-hhmm"); any other text is taken to
\* start with a letter and so sorts behind every date string.
SuffixKey(ts) ==
    IF ts.k = "bare" THEN 0
    ELSE IF ts.off >= 0 THEN 1 + ts.off
    ELSE 1 + SecondsPerDay - ts.off

StrLeq(a, b) ==
    IF a.k = "text" /\ b.k = "text" THEN a.wall <= b.wall
    ELSE IF a.k = "text" THEN FALSE
    ELSE IF b.k = "text" THEN TRUE
    ELSE a.wall < b.wall \/ (a.wall = b.wall /\ SuffixKey(a) <= SuffixKey(b))

RECURSIVE InsertByStartDt(_, _)
InsertByStartDt(sorted, item) ==
    IF sorted = <<>> THEN <<item>>
    ELSE IF StrLeq(sorted[Len(sorted)].startDtUtc, item.startDtUtc)
    THEN Append(sorted, item)
    ELSE Append(InsertByStartDt(SubSeq(sorted, 1, Len(sorted) - 1), item),
                sorted[Len(sorted)])

RECURSIVE SortedByStartDt(_)
SortedByStartDt(items) ==
    IF items = <<>> THEN <<>>
    ELSE InsertByStartDt(SortedByStartDt(SubSeq(items, 1, Len(items) - 1)),
                         items[Len(items)])

\* union_planned.sort(key=lambda item: item.get("startDtUtc", "")) raises
\* TypeError when it has to compare a key that is None: every key of a list of
\* two or more items is compared at least once.
SortRaises(union_planned) ==
    Len(union_planned) >= 2
    /\ \E i \in 1..Len(union_planned) : union_planned[i].startDtUtc.k = "null"

\* Faulty variant of _resolve_primary_equipment: the first device of the
\* poll is taken whatever is remembered.
ResolveFirstDevice(ids, remembered) ==
    IF ids = <<>> THEN NoDevice ELSE ids[1]

\* _resolve_primary_equipment: the value returned, which is also what
\* self._primary_equipment_id holds afterwards
_resolve_primary_equipment(ids, remembered) ==
    IF remembered # NoDevice /\ (\E i \in 1..Len(ids) : ids[i] = remembered)
    THEN remembered
    ELSE IF ids = <<>> THEN NoDevice ELSE ids[1]

\* Faulty variant of Dataset: the dict is handed out after the first device.
DatasetOfFirstDevice(ids, device_states, union_planned, primary) ==
    [ loaded |-> TRUE, ids |-> SubSeq(ids, 1, 1),
      devices |-> [k \in {ids[1]} |-> device_states[k]],
      plannedDispatches |->
          SelectSeq(union_planned,
                    LAMBDA state : state.meta["deviceId"] = ids[1]),
      primary_equipment_id |-> ids[1] ]

\* The dict _async_update_data returns
Dataset(ids, device_states, union_planned, primary) ==
    [ loaded |-> TRUE, ids |-> ids, devices |-> device_states,
      plannedDispatches |-> SortedByStartDt(union_planned),
      primary_equipment_id |-> primary ]

-----------------------------------------------------------------------------
(* What the API answers, and the clock: the inputs of the model            *)

MaxPlanned == 2     \* planned dispatches in one poll, all devices together
MaxPolls == 2       \* poll cycles started in one run

At(day, hour, minute) ==
    day * SecondsPerDay + hour * SecondsPerHour + minute * SecondsPerMinute

IsoZ(t) == Ts("isoZ", t, 0)
IsoOff(t) == Ts("isoOff", t + SecondsPerHour, SecondsPerHour)
Naive(t) == Ts("naive", t, 0)

RawDispatch(start, end, type) == [start |-> start, end |-> end, type |-> type]

\* Planned dispatches with both timestamps well formed (start <= end)
GoodRawDispatches ==
    { RawDispatch(IsoZ(At(1, 22, 0)), IsoZ(At(1, 23, 0)), SMART_CHARGE),
      RawDispatch(IsoOff(At(2, 5, 0)), IsoOff(At(2, 6, 30)), SMART_CHARGE),
      RawDispatch(IsoZ(At(1, 12, 0)), IsoZ(At(1, 13, 0)), BUMP_CHARGE),
      RawDispatch(IsoZ(At(1, 22, 0)), IsoZ(At(1, 23, 0)), None) }

\* Planned dispatches with a timestamp that is absent or does not parse
BadRawDispatches ==
    { RawDispatch(Naive(At(1, 12, 0)), IsoZ(At(2, 6, 30)), SMART_CHARGE),
      RawDispatch(IsoZ(At(1, 12, 0)), NullTs, SMART_CHARGE),
      RawDispatch(NullTs, IsoZ(At(2, 6, 30)), SMART_CHARGE) }

RawDispatches == GoodRawDispatches \cup BadRawDispatches

\* The planned dispatches the poll cycles of Spec are answered with: one per
\* source, one without a source, one without a start
PolledDispatches ==
    { r \in RawDispatches :
        r.start \in {IsoZ(At(1, 22, 0)), IsoZ(At(1, 12, 0)), NullTs}
        /\ r.end # NullTs }

Lists(S, n) == UNION { [1..k -> S] : k \in 0..n }

RawDevice(id, supported, suspended) ==
    [ id |-> id, supported |-> supported,
      status |-> IF suspended THEN [isSuspended |-> TRUE] ELSE EmptyDict ]

\* Answers of async_get_devices; supported is what is_supported_equipment
\* makes of the descriptor
RawDeviceLists ==
    { <<RawDevice("d3", FALSE, FALSE)>>,
      <<RawDevice("d1", TRUE, FALSE)>>,
      <<RawDevice("d1", TRUE, FALSE), RawDevice("d2", TRUE, TRUE)>>,
      <<RawDevice("d3", FALSE, FALSE), RawDevice("d2", TRUE, FALSE),
        RawDevice("d1", TRUE, FALSE)>> }

DeviceIds == {"d1", "d2", "d3"}

\* Answers of async_get_device_preferences: the status sub-object
RawPreferences ==
    { [status |-> EmptyDict],
      [status |-> [isSuspended |-> TRUE]] }

\* self._off_peak_start, self._off_peak_end and the timezone
Configs ==
    { [tz |-> SecondsPerHour, start |-> At(0, 23, 30), end |-> At(0, 5, 30)],
      [tz |-> 0, start |-> At(0, 23, 30), end |-> At(0, 5, 30)],
      [tz |-> 0, start |-> At(0, 0, 30), end |-> At(0, 5, 30)] }

\* The local wall-clock instants at which the model looks at the system
LocalClock ==
    << At(1, 12, 0), At(1, 22, 30), At(1, 23, 29), At(1, 23, 30),
       At(1, 23, 45), At(2, 0, 0), At(2, 4, 0), At(2, 4, 30), At(2, 4, 31),
       At(2, 5, 30) + 30, At(2, 12, 30) >>

\* minutes_offset of the callers: look_ahead_mins 0 and 60
Offsets == {0, 60}

\* device_id of the callers: None, or one of the ids
DeviceArgs == {NoDevice, "d1", "d2"}

-----------------------------------------------------------------------------
(* _async_update_data, one action per stretch between two awaits           *)

Idle == [ pc |-> "idle", devices |-> <<>>, preferences |-> [status |-> EmptyDict],
          ids |-> <<>>, device_states |-> EmptyDict, union_planned |-> <<>>,
          outcome |-> "", cause |-> "" ]

\* Faulty variant of Finished: without the except clause of line 233 the
\* exception leaves the coroutine as it was raised.
FinishedUnwrapped(outcome, cause) ==
    [Idle EXCEPT !.outcome = IF cause = "" THEN outcome ELSE cause,
                 !.cause = cause]

\* The coroutine has ended: outcome is "returned" or the name of the exception
\* class that left it, cause the exception caught at line 233 ("" if none)
Finished(outcome, cause) == [Idle EXCEPT !.outcome = outcome, !.cause = cause]

\* (preferences or {}).get("chargingPreferences", {})
ChargingPreferences(preferences) ==
    IF "chargingPreferences" \in DOMAIN preferences
    THEN preferences.chargingPreferences ELSE EmptyDict

\* The loop body for one device, from the two answers to the end of the turn:
\* acc holds device_states (with its key order ids), union_planned and the
\* fallbacks of self._persistent_data.
DeviceStep(acc, device, preferences, dispatches) ==
    LET n == _normalise_planned_dispatches(device.id, dispatches,
                                           acc.sources, acc.source)
        state == [ device |-> device,
                   preferences |-> ChargingPreferences(preferences),
                   status |-> _build_device_status(device, preferences),
                   plannedDispatches |-> n.dispatches ]
    IN  [ ids |-> IF device.id \in DOMAIN acc.device_states THEN acc.ids
                  ELSE Append(acc.ids, device.id),
          device_states |->
              [k \in DOMAIN acc.device_states \cup {device.id} |->
                  IF k = device.id THEN state ELSE acc.device_states[k]],
          union_planned |-> acc.union_planned \o n.dispatches,
          sources |-> n.sources,
          source |-> n.source ]

SupportedDevices(raw_devices) ==
    SelectSeq(raw_devices, LAMBDA device : device.supported)

PollStart ==
    /\ poll.pc = "idle"
    /\ polls < MaxPolls
    /\ polls' = polls + 1
    /\ poll' = [Idle EXCEPT !.pc = "get_devices"]
    /\ UNCHANGED <<now, tz, off_peak_start, off_peak_end, data,
                   last_seen_planned_dispatch_sources,
                   last_seen_planned_dispatch_source, primary_equipment_id,
                   date_ranges, merged_date_ranges,
                   callVars>>

\* async_get_devices answers; no supported device raises UpdateFailed
PollDevices ==
    /\ poll.pc = "get_devices"
    /\ \E raw_devices \in RawDeviceLists :
         LET devices == SupportedDevices(raw_devices) IN
         poll' = IF devices = <<>>
                 THEN Finished("UpdateFailed", "UpdateFailed")
                 ELSE [poll EXCEPT !.pc = "get_preferences",
                                   !.devices = devices]
    /\ UNCHANGED <<now, tz, off_peak_start, off_peak_end, data,
                   last_seen_planned_dispatch_sources,
                   last_seen_planned_dispatch_source, primary_equipment_id,
                   polls, date_ranges, merged_date_ranges,
                   callVars>>

\* async_get_device_preferences answers for the device at hand
PollPreferences ==
    /\ poll.pc = "get_preferences"
    /\ \E preferences \in RawPreferences :
         poll' = [poll EXCEPT !.pc = "get_dispatches",
                              !.preferences = preferences]
    /\ UNCHANGED <<now, tz, off_peak_start, off_peak_end, data,
                   last_seen_planned_dispatch_sources,
                   last_seen_planned_dispatch_source, primary_equipment_id,
                   polls, date_ranges, merged_date_ranges,
                   callVars>>

\* async_get_device_dispatches answers: the device is normalised and stored;
\* after the last device the union is sorted, the primary equipment resolved
\* and the dataset returned, unless the sort raises (UpdateFailed).
PollDispatches ==
    /\ poll.pc = "get_dispatches"
    /\ \E dispatches \in Lists(PolledDispatches, MaxPlanned) :
         /\ Len(poll.union_planned) + Len(dispatches) <= MaxPlanned
         /\ LET acc == DeviceStep(
                    [ ids |-> poll.ids, device_states |-> poll.device_states,
                      union_planned |-> poll.union_planned,
                      sources |-> last_seen_planned_dispatch_sources,
                      source |-> last_seen_planned_dispatch_source ],
                    Head(poll.devices), poll.preferences, dispatches)
                rest == Tail(poll.devices)
                primary == _resolve_primary_equipment(acc.ids,
                                                      primary_equipment_id)
            IN  /\ last_seen_planned_dispatch_sources' = acc.sources
                /\ last_seen_planned_dispatch_source' = acc.source
                /\ IF rest # <<>>
                   THEN /\ poll' = [poll EXCEPT
                                      !.pc = "get_preferences",
                                      !.devices = rest,
                                      !.ids = acc.ids,
                                      !.device_states = acc.device_states,
                                      !.union_planned = acc.union_planned]
                        /\ UNCHANGED <<data, primary_equipment_id>>
                   ELSE IF SortRaises(acc.union_planned)
                   THEN /\ poll' = Finished("UpdateFailed", "TypeError")
                        /\ UNCHANGED <<data, primary_equipment_id>>
                   ELSE /\ poll' = Finished("returned", "")
                        /\ primary_equipment_id' = primary
                        /\ data' = Dataset(acc.ids, acc.device_states,
                                           acc.union_planned, primary)
    /\ UNCHANGED <<now, tz, off_peak_start, off_peak_end, polls,
                   date_ranges, merged_date_ranges,
                   callVars>>

\* An await raises (network error, schema error) or the 90 s timeout expires:
\* UpdateFailed, and self.data keeps the last dataset
PollError ==
    /\ poll.pc # "idle"
    /\ \E cause \in {"ClientError", "TimeoutError"} :
         poll' = Finished("UpdateFailed", cause)
    /\ UNCHANGED <<now, tz, off_peak_start, off_peak_end, data,
                   last_seen_planned_dispatch_sources,
                   last_seen_planned_dispatch_source, primary_equipment_id,
                   polls, date_ranges, merged_date_ranges,
                   callVars>>

-----------------------------------------------------------------------------
(* The clock *)

ClockIndex ==
    CHOOSE i \in 1..Len(LocalClock) : as_utc(LocalClock[i]) = now

Tick ==
    /\ ClockIndex < Len(LocalClock)
    /\ now' = as_utc(LocalClock[ClockIndex + 1])
    /\ UNCHANGED <<tz, off_peak_start, off_peak_end, data,
                   last_seen_planned_dispatch_sources,
                   last_seen_planned_dispatch_source, primary_equipment_id,
                   poll, polls, date_ranges, merged_date_ranges,
                   callVars>>

-----------------------------------------------------------------------------
(* Spec: the poll cycles of one integration instance, from a fresh start   *)

\* No query has been called, no action is running, the client has no session
NoQuery == [name |-> "", minutes_offset |-> 0, device_id |-> NoDevice]

NoSummary ==
    [ mode |-> "", active_target_key |-> "", active_target_time |-> NoneStr,
      target_device_id |-> NoDevice, target_device_label |-> <<>>,
      device_targets |-> <<>> ]

\* The value a query returns, by its Python type: a and b hold a bool, a
\* datetime or the start and end of a range, summary a TargetReadySummary
Value(type, a, b) == [type |-> type, a |-> a, b |-> b, summary |-> NoSummary]
BoolValue(b) == Value("bool", IF b THEN 1 ELSE 0, 0)
TimeValue(t) ==
    IF t = NoTime THEN Value("NoneType", 0, 0) ELSE Value("datetime", t, 0)
RangeValue(r) ==
    IF r = NoRange THEN Value("NoneType", 0, 0)
    ELSE Value("dict", r["start"], r["end"])
SummaryValue(summary) ==
    [type |-> "TargetReadySummary", a |-> 0, b |-> 0, summary |-> summary]

NoAnswer == [query |-> NoQuery, value |-> Value("", 0, 0)]
NoSoc == -1             \* None where the code holds a target SOC

\* The last call of an action function: its name and device_id argument,
\* the device id, hours (in seconds) and SOC it passed to the client
\* (called is FALSE when it returned before calling the client), the
\* exception that left it ("" if it returned) and whether it ran
\* async_refresh
NoAction == [name |-> "", device_id |-> NoDevice, called |-> FALSE,
             target |-> NoDevice, ready |-> 0, soc |-> NoSoc,
             raised |-> "", refreshed |-> FALSE]
NoSession == None

\* No helper of binary_sensor.py has run: the helper's name, its arguments,
\* the calls it made on the system, the exception that left it ("" if it
\* returned), the boolean and the list it returned
NoEntity == [helper |-> "", system |-> "", slot_mode |-> "",
             device_id |-> NoDevice, minutes_offset |-> 0,
             dispatches |-> <<>>, calls |-> <<>>, raised |-> "",
             is_on |-> FALSE, planned |-> <<>>]

InitCalls ==
    /\ answer = NoAnswer
    /\ action = NoAction
    /\ session = NoSession
    /\ requests = <<>>
    /\ entity = NoEntity

DefaultConfig ==
    [tz |-> 0, start |-> At(0, 23, 30), end |-> At(0, 5, 30)]

\* self._primary_equipment_id of a new instance: the configured one
DefaultPrimary == "d2"

Init ==
    /\ tz = DefaultConfig.tz
    /\ off_peak_start = DefaultConfig.start
    /\ off_peak_end = DefaultConfig.end
    /\ now = as_utc(LocalClock[1])
    /\ data = NoData
    /\ last_seen_planned_dispatch_sources = EmptyDict
    /\ last_seen_planned_dispatch_source = ""
    /\ primary_equipment_id = DefaultPrimary
    /\ poll = Idle
    /\ polls = 0
    /\ date_ranges = <<>>
    /\ merged_date_ranges = <<>>
    /\ InitCalls

Next == PollStart \/ PollDevices \/ PollPreferences \/ PollDispatches
        \/ PollError

Spec == Init /\ [][Next]_vars

-----------------------------------------------------------------------------
(* SpecQueries: the queries over the dataset of one successful poll of two *)
(* devices, or over no dataset yet, while the clock advances               *)

Acc0 == [ ids |-> <<>>, device_states |-> EmptyDict, union_planned |-> <<>>,
          sources |-> EmptyDict, source |-> "" ]

\* The poll cycle for the devices d1 and d2 as one fold of DeviceStep
PollOfTwo(p1, l1, p2, l2) ==
    DeviceStep(DeviceStep(Acc0, RawDevice("d1", TRUE, FALSE), p1, l1),
               RawDevice("d2", TRUE, FALSE), p2, l2)

InitQueries ==
    /\ \E config \in Configs :
         /\ tz = config.tz
         /\ off_peak_start = config.start
         /\ off_peak_end = config.end
         /\ now = LocalClock[1] - config.tz
    /\ \/ /\ data = NoData
          /\ last_seen_planned_dispatch_sources = EmptyDict
          /\ last_seen_planned_dispatch_source = ""
          /\ primary_equipment_id = NoDevice
          /\ polls = 0
       \/ \E p1 \in RawPreferences, p2 \in RawPreferences,
             l1 \in Lists(RawDispatches, MaxPlanned),
             l2 \in Lists(RawDispatches, MaxPlanned) :
            /\ Len(l1) + Len(l2) <= MaxPlanned
            /\ LET acc == PollOfTwo(p1, l1, p2, l2)
                   primary == _resolve_primary_equipment(acc.ids, NoDevice)
               IN  /\ ~ SortRaises(acc.union_planned)
                   /\ data = Dataset(acc.ids, acc.device_states,
                                     acc.union_planned, primary)
                   /\ last_seen_planned_dispatch_sources = acc.sources
                   /\ last_seen_planned_dispatch_source = acc.source
                   /\ primary_equipment_id = primary
            /\ polls = 1
    /\ poll = Idle
    /\ date_ranges = <<>>
    /\ merged_date_ranges = <<>>
    /\ InitCalls

SpecQueries == InitQueries /\ [][Tick]_vars

-----------------------------------------------------------------------------
(* SpecMerge: calls of util.merge_and_sort_time_ranges on lists of ranges  *)
(* with start <= end                                                       *)

MaxRanges == 3      \* ranges in one list
MaxTime == 3        \* instants 0..MaxTime

WellFormedRanges == { r \in { Range(s, e) : s \in 0..MaxTime, e \in 0..MaxTime } :
                        r["start"] <= r["end"] }

\* The caller's list after the call: merged_date_ranges holds the very dicts
\* of the argument, so the one whose end the loop extends changes in the
\* caller's list too.  Each range is tagged with its index to follow it.
ListAfterMerge(ranges) ==
    LET tagged == [i \in 1..Len(ranges) |->
                     [start |-> ranges[i]["start"], end |-> ranges[i]["end"],
                      index |-> i]]
        merged == merge_and_sort_time_ranges(tagged)
    IN  [i \in 1..Len(ranges) |->
           IF \E j \in 1..Len(merged) : merged[j].index = i
           THEN LET j == CHOOSE j \in 1..Len(merged) : merged[j].index = i
                IN  Range(merged[j]["start"], merged[j]["end"])
           ELSE ranges[i]]

Merge ==
    /\ merged_date_ranges' = merge_and_sort_time_ranges(date_ranges)
    /\ date_ranges' = ListAfterMerge(date_ranges)
    /\ UNCHANGED <<now, tz, off_peak_start, off_peak_end, data,
                   last_seen_planned_dispatch_sources,
                   last_seen_planned_dispatch_source, primary_equipment_id,
                   poll, polls,
                   callVars>>

InitMerge ==
    /\ tz = DefaultConfig.tz
    /\ off_peak_start = DefaultConfig.start
    /\ off_peak_end = DefaultConfig.end
    /\ now = as_utc(LocalClock[1])
    /\ data = NoData
    /\ last_seen_planned_dispatch_sources = EmptyDict
    /\ last_seen_planned_dispatch_source = ""
    /\ primary_equipment_id = NoDevice
    /\ poll = Idle
    /\ polls = 0
    /\ date_ranges \in Lists(WellFormedRanges, MaxRanges)
    /\ merged_date_ranges = <<>>
    /\ InitCalls

SpecMerge == InitMerge /\ [][Merge]_vars

-----------------------------------------------------------------------------
(* SpecFrame: query calls on the dataset of one successful poll.  The dicts *)
(* a call builds and hands to merge_and_sort_time_ranges are followed as    *)
(* objects: 0 is a dict made by the call, i the row i of plannedDispatches. *)

\* Faulty variant of EntryObject: the row itself is put into the list.
EntryObjectIsRow(row) == row

\* entry = {"start": startUtc, "end": endUtc}: a dict of its own
EntryObject(row) == 0

\* The rows of plannedDispatches for which the loop appends an entry
CollectedRows(d, device_id) ==
    SelectSeq([i \in 1..Len(d.plannedDispatches) |-> i],
              LAMBDA i : CollectDispatches(d, <<d.plannedDispatches[i]>>,
                                           device_id) # <<>>)

\* The objects of candidate_ranges, in the order of CandidateRanges
CandidateObjects(d, utcnow, device_id) ==
    LET rows == CollectedRows(d, device_id)
        collected == [k \in 1..Len(rows) |-> EntryObject(rows[k])]
        base == [k \in 1..Len(BaseOffpeakRanges(utcnow)) |-> 0]
    IN  IF device_id # NoDevice
        THEN (IF collected # <<>> THEN collected ELSE base)
        ELSE base \o collected

\* The dataset after next_offpeak_range_utc: merge_and_sort_time_ranges
\* assigns current["end"] in place, which reaches a row when the dict is one.
DataAfterRanges(d, utcnow, device_id) ==
    LET candidate_ranges == CandidateRanges(d, utcnow, device_id)
        after == ListAfterMerge(candidate_ranges)
        objects == CandidateObjects(d, utcnow, device_id)
        Written(i) == { k \in 1..Len(objects) :
                          objects[k] = i /\ after[k] # candidate_ranges[k] }
    IN  [d EXCEPT !.plannedDispatches =
           [i \in 1..Len(d.plannedDispatches) |->
              IF Written(i) # {}
              THEN [d.plannedDispatches[i] EXCEPT !.endDtUtc =
                      Ts("canon",
                         after[CHOOSE k \in Written(i) : TRUE]["end"], 0)]
              ELSE d.plannedDispatches[i]]]

\* current_intelligent_charge_start_utc gets to its last line, the call of
\* next_offpeak_start_utc: no smart-charge dispatch in scope is current or
\* ahead
ReachesNextOffpeak(d, device_id) ==
    ChargeStartScan(d, d.plannedDispatches, device_id, NoTime)
      = ChargeStartScan(d, <<>>, device_id, NoTime)
    /\ \A i \in 1..Len(d.plannedDispatches) :
         LET state == d.plannedDispatches[i]
             start_utc == _parse_dispatch_datetime(state.startDtUtc)
             end_utc == _parse_dispatch_datetime(state.endDtUtc)
         IN  ( MetaGet(state, "source", None) = SMART_CHARGE
               /\ (device_id = NoDevice
                   \/ MetaGet(state, "deviceId", None) = device_id)
               /\ start_utc # NoTime /\ end_utc # NoTime )
             => end_utc < now /\ start_utc <= now

QueryNames ==
    { "next_offpeak_range_utc", "current_intelligent_charge_start_utc",
      "is_charging_now", "is_off_peak_now", "is_device_off_peak_now",
      "get_ready_time_summary" }

\* The calls of the entities: offsets only where the function takes one
Queries ==
    { q \in [name : QueryNames, minutes_offset : Offsets,
             device_id : DeviceArgs] :
        /\ q.name \in {"current_intelligent_charge_start_utc",
                       "get_ready_time_summary"}
             => q.minutes_offset = 0
        /\ q.name = "is_off_peak_now" => q.device_id = NoDevice }

CallsNextOffpeakRange(d, q) ==
    \/ q.name = "next_offpeak_range_utc"
    \/ q.name = "current_intelligent_charge_start_utc"
         /\ ReachesNextOffpeak(d, q.device_id)

Answer(d, q) ==
    CASE q.name = "next_offpeak_range_utc" ->
           RangeValue(next_offpeak_range_utc(d, q.minutes_offset,
                                             q.device_id))
      [] q.name = "current_intelligent_charge_start_utc" ->
           TimeValue(current_intelligent_charge_start_utc(d, q.device_id))
      [] q.name = "is_charging_now" ->
           BoolValue(is_charging_now(d, SMART_CHARGE, q.minutes_offset,
                                     q.device_id))
      [] q.name = "is_off_peak_now" ->
           BoolValue(is_off_peak_now(d, q.minutes_offset))
      [] q.name = "is_device_off_peak_now" ->
           BoolValue(is_device_off_peak_now(d, q.device_id,
                                            q.minutes_offset))
      [] q.name = "get_ready_time_summary" ->
           SummaryValue(get_ready_time_summary(d, q.device_id))

\* The call q of a query on self.data
Call(q) ==
    LET utcnow == now + q.minutes_offset * SecondsPerMinute IN
    /\ answer' = [query |-> q, value |-> Answer(data, q)]
    /\ IF CallsNextOffpeakRange(data, q)
       THEN LET candidate_ranges ==
                    CandidateRanges(data, utcnow, q.device_id)
            IN  /\ data' = DataAfterRanges(data, utcnow, q.device_id)
                /\ date_ranges' = ListAfterMerge(candidate_ranges)
                /\ merged_date_ranges' =
                       merge_and_sort_time_ranges(candidate_ranges)
       ELSE UNCHANGED <<data, date_ranges, merged_date_ranges>>
    /\ UNCHANGED <<now, tz, off_peak_start, off_peak_end,
                   last_seen_planned_dispatch_sources,
                   last_seen_planned_dispatch_source, primary_equipment_id,
                   poll, polls, action, session, requests, entity>>

\* An entity calls a query
Query == \E q \in Queries : Call(q)

\* Planned dispatches that overlap each other and the fixed window
FrameDispatches ==
    { RawDispatch(IsoZ(At(1, 22, 0)), IsoZ(At(1, 23, 0)), SMART_CHARGE),
      RawDispatch(IsoZ(At(1, 22, 30)), IsoZ(At(1, 23, 45)), SMART_CHARGE),
      RawDispatch(IsoOff(At(2, 5, 0)), IsoOff(At(2, 6, 30)), SMART_CHARGE) }

FrameClock == { At(1, 12, 0), At(2, 12, 30) }

InitFrame ==
    /\ \E config \in Configs, local \in FrameClock :
         /\ tz = config.tz
         /\ off_peak_start = config.start
         /\ off_peak_end = config.end
         /\ now = local - config.tz
    /\ \E p1 \in RawPreferences, p2 \in RawPreferences,
          l1 \in Lists(FrameDispatches, MaxPlanned),
          l2 \in Lists(FrameDispatches, MaxPlanned) :
         /\ Len(l1) + Len(l2) <= MaxPlanned
         /\ LET acc == PollOfTwo(p1, l1, p2, l2)
                primary == _resolve_primary_equipment(acc.ids, NoDevice)
            IN  /\ data = Dataset(acc.ids, acc.device_states,
                                  acc.union_planned, primary)
                /\ last_seen_planned_dispatch_sources = acc.sources
                /\ last_seen_planned_dispatch_source = acc.source
                /\ primary_equipment_id = primary
    /\ polls = 1
    /\ poll = Idle
    /\ date_ranges = <<>>
    /\ merged_date_ranges = <<>>
    /\ answer = NoAnswer
    /\ action = NoAction
    /\ session = NoSession
    /\ requests = <<>>
    /\ entity = NoEntity

SpecFrame == InitFrame /\ [][Query]_vars

-----------------------------------------------------------------------------
(* SpecSummary: get_ready_time_summary on the dataset of one successful    *)
(* poll of one or two devices with their charging preferences              *)

WeekdayTimes ==
    { NoneStr, TimeStr(<<>>), TimeStr(<<7, 30>>), TimeStr(<<8, 0>>),
      TimeStr(<<7, 30, 0>>) }
WeekendTimes == { NoneStr, TimeStr(<<7, 30>>), TimeStr(<<9, 0, 0>>) }

\* Answers of async_get_device_preferences with chargingPreferences, and one
\* without
TargetPreferences ==
    { [status |-> EmptyDict,
       chargingPreferences |-> [weekdayTargetTime |-> weekday_time,
                                weekendTargetTime |-> weekend_time]] :
        weekday_time \in WeekdayTimes, weekend_time \in WeekendTimes }
    \cup { [status |-> EmptyDict] }

\* Wednesday noon, Friday 23:30 and Sunday noon, UTC
SummaryClock == { At(2, 12, 0), At(4, 23, 30), At(6, 12, 0) }

SummaryQueries ==
    { [name |-> "get_ready_time_summary", minutes_offset |-> 0,
       device_id |-> device_id] : device_id \in DeviceArgs \cup {"d3"} }

Summarise == \E q \in SummaryQueries : Call(q)

InitSummary ==
    /\ tz \in {0, SecondsPerHour}
    /\ off_peak_start = DefaultConfig.start
    /\ off_peak_end = DefaultConfig.end
    /\ now \in SummaryClock
    /\ \E ids \in {<<"d1">>, <<"d1", "d2">>, <<"d2", "d1">>},
          p1 \in TargetPreferences, p2 \in TargetPreferences :
         LET first == DeviceStep(Acc0, RawDevice(ids[1], TRUE, FALSE),
                                 p1, <<>>)
             acc == IF Len(ids) = 1 THEN first
                    ELSE DeviceStep(first, RawDevice(ids[2], TRUE, FALSE),
                                    p2, <<>>)
             primary == _resolve_primary_equipment(acc.ids, NoDevice)
         IN  /\ data = Dataset(acc.ids, acc.device_states,
                               acc.union_planned, primary)
             /\ primary_equipment_id = primary
    /\ last_seen_planned_dispatch_sources = EmptyDict
    /\ last_seen_planned_dispatch_source = ""
    /\ polls = 1
    /\ poll = Idle
    /\ date_ranges = <<>>
    /\ merged_date_ranges = <<>>
    /\ InitCalls

SpecSummary == InitSummary /\ [][Summarise]_vars

-----------------------------------------------------------------------------
(* The GraphQL client: requests, session handling and the five mutations   *)

\* One request sent to the API: the operation name, the action of a smart
\* control or boost mutation, the deviceId parameter and the schedules of
\* setDevicePreferences
Request(op, act, device_id, schedules) ==
    [op |-> op, action |-> act, device_id |-> device_id,
     schedules |-> schedules]

TokenRequest == Request("krakenTokenAuthentication", "", NoDevice, <<>>)
DevicesRequest == Request("getDevices", "", NoDevice, <<>>)
DeviceInfoRequest == Request("registeredKrakenflexDevice", "", NoDevice, <<>>)

\* What a function run with a session did: the requests it sent and the
\* exception it raised ("" if it returned)
Ran(log, raised) == [log |-> log, raised |-> raised]

\* The answers of the network to one client call: whether the token request
\* of each attempt succeeds, whether the mutation of each attempt succeeds,
\* the id of the first LIVE device of the devices query ("raise" if the
\* query fails, NoDevice if no device is LIVE), the krakenflexDeviceId of
\* the legacy device query, and whether the boost mutation of the schema
\* takes a device id
Transports ==
    { [token |-> <<TRUE, TRUE>>, mutation |-> <<TRUE, TRUE>>],
      [token |-> <<FALSE, TRUE>>, mutation |-> <<TRUE, TRUE>>],
      [token |-> <<FALSE, FALSE>>, mutation |-> <<TRUE, TRUE>>],
      [token |-> <<TRUE, TRUE>>, mutation |-> <<FALSE, TRUE>>],
      [token |-> <<TRUE, TRUE>>, mutation |-> <<FALSE, FALSE>>],
      [token |-> <<TRUE, FALSE>>, mutation |-> <<FALSE, TRUE>>] }
Accounts ==
    { [live |-> "d2", legacy |-> NoDevice],
      [live |-> NoDevice, legacy |-> "k1"],
      [live |-> NoDevice, legacy |-> NoDevice],
      [live |-> "raise", legacy |-> "k1"] }
Networks ==
    { transport @@ account @@ [supports_device |-> supports_device] :
        transport \in Transports, account \in Accounts,
        supports_device \in BOOLEAN }

\* The networks that differ for a call: the device queries are sent only
\* without a device id, the schema is read only by the boost mutations
NetworksOf(call) ==
    { net \in Networks :
        /\ \/ call.device_id = NoDevice
              /\ call.name \notin {"async_trigger_boost_charge",
                                   "async_cancel_boost_charge"}
           \/ net.live = NoDevice /\ net.legacy = NoDevice
        /\ \/ call.name \in {"async_trigger_boost_charge",
                              "async_cancel_boost_charge"}
           \/ net.supports_device }

\* __async_get_device_id: the requests it sends and the id it returns
\* (NoDevice for None)
GetDeviceId(net) ==
    IF net.live \notin {"raise", NoDevice}
    THEN [log |-> <<DevicesRequest>>, id |-> net.live]
    ELSE [log |-> <<DevicesRequest, DeviceInfoRequest>>, id |-> net.legacy]

\* device_id or await self.__async_get_device_id(session, account_id)
DeviceIdOr(device_id, net) ==
    IF device_id # NoDevice THEN [log |-> <<>>, id |-> device_id]
    ELSE GetDeviceId(net)

\* session.execute of a mutation: sent, then the answer or a transport error
Execute(log, request, ok) ==
    Ran(Append(log, request), IF ok THEN "" ELSE "TransportError")

\* Python round() of n / unit for natural n: half to even
RoundHalfEven(n, unit) ==
    LET q == n \div unit
        r == n % unit
    IN  IF 2 * r < unit THEN q
        ELSE IF 2 * r > unit THEN q + 1
        ELSE IF q % 2 = 0 THEN q ELSE q + 1

\* math.ceil(n / unit) for natural n
Ceil(n, unit) == (n + unit - 1) \div unit

\* targetSocPercent = 5 * math.ceil(round(targetSocPercent) / 5)
SocStep == 5
RoundedSocDown(targetSocPercent) ==
    SocStep * (RoundHalfEven(targetSocPercent, 1) \div SocStep)
RoundedSoc(targetSocPercent) ==
    SocStep * Ceil(RoundHalfEven(targetSocPercent, 1), SocStep)

\* readyByHoursAfterMidnight = 0.5 * round(readyByHoursAfterMidnight / 0.5),
\* hours held in seconds
HalfHour == SecondsPerHour \div 2
RoundedReady(readyByHoursAfterMidnight) ==
    HalfHour * RoundHalfEven(readyByHoursAfterMidnight, HalfHour)

days_of_week ==
    << "MONDAY", "TUESDAY", "WEDNESDAY", "THURSDAY", "FRIDAY", "SATURDAY",
       "SUNDAY" >>

\* The schedules of the mutation: f"{ready_hours:02}:{ready_mins:02}" and
\* the SOC, for each day
Schedules(ready, soc) ==
    LET ready_hours == ready \div SecondsPerHour
        ready_mins == RoundHalfEven(MinutesPerHour * (ready % SecondsPerHour),
                                    SecondsPerHour)
        target_time == TimeStr(<<ready_hours, ready_mins>>)
    IN  [ i \in 1..Len(days_of_week) |->
            [dayOfWeek |-> days_of_week[i], time |-> target_time,
             max |-> soc] ]

\* The ValueError checks of __async_set_charge_preferences, on the rounded
\* values
MinReadyHours == 4
MaxReadyHours == 11
MinSoc == 10
MaxSoc == 100
Rejects(ready, soc) ==
    \/ ready < MinReadyHours * SecondsPerHour
    \/ ready > MaxReadyHours * SecondsPerHour
    \/ soc < MinSoc
    \/ soc > MaxSoc

\* __async_set_charge_preferences run with a session, attempt i
SetChargePreferences(net, i, readyByHoursAfterMidnight, targetSocPercent, device_id) ==
    LET soc == RoundedSoc(targetSocPercent)
        ready == RoundedReady(readyByHoursAfterMidnight)
        found == DeviceIdOr(device_id, net)
    IN  IF Rejects(ready, soc) THEN Ran(<<>>, "ValueError")
        ELSE IF found.id = NoDevice THEN Ran(found.log, "Exception")
        ELSE Execute(found.log,
                     Request("setDevicePreferences", "", found.id,
                             Schedules(ready, soc)),
                     net.mutation[i])

\* __async_suspend_smart_charging and __async_resume_smart_charging
SmartControl(net, i, act, device_id) ==
    LET found == DeviceIdOr(device_id, net) IN
    IF found.id = NoDevice THEN Ran(found.log, "Exception")
    ELSE Execute(found.log,
                 Request("updateDeviceSmartControl", act, found.id, <<>>),
                 net.mutation[i])

\* __async_trigger_boost_charge and __async_cancel_boost_charge: the
\* mutation carries a device id only if one was given and the mutation of the
\* schema has a field for it
BoostCharge(net, i, act, device_id) ==
    Execute(<<>>,
            Request(IF act = "BOOST" THEN "triggerBoostCharge"
                    ELSE "deleteBoostCharge",
                    act,
                    IF device_id # NoDevice /\ net.supports_device
                    THEN device_id ELSE NoDevice,
                    <<>>),
            net.mutation[i])

\* The function a public method of the client hands to
\* __async_execute_with_session, run as attempt i
ClientFunc(call, net, i) ==
    CASE call.name = "async_set_charge_preferences" ->
           SetChargePreferences(net, i, call.ready, call.soc, call.device_id)
      [] call.name = "async_suspend_smart_charging" ->
           SmartControl(net, i, "SUSPEND", call.device_id)
      [] call.name = "async_resume_smart_charging" ->
           SmartControl(net, i, "UNSUSPEND", call.device_id)
      [] call.name = "async_trigger_boost_charge" ->
           BoostCharge(net, i, "BOOST", call.device_id)
      [] call.name = "async_cancel_boost_charge" ->
           BoostCharge(net, i, "CANCEL", call.device_id)

Client == "Client"      \* a gql Client held in self._session

\* One run of "async with await self.__async_get_session(reset) as session:
\* return await func(session)": the requests sent, the exception raised and
\* self._session afterwards
AttemptWithNewToken(call, net, i, cached, reset) ==
    IF ~net.token[i]
    THEN [log |-> <<TokenRequest>>, raised |-> "TransportError",
          session |-> NoSession]
    ELSE LET ran == ClientFunc(call, net, i) IN
         [log |-> <<TokenRequest>> \o ran.log, raised |-> ran.raised,
          session |-> Client]

Attempt(call, net, i, cached, reset) ==
    IF cached # NoSession /\ ~reset
    THEN ClientFunc(call, net, i) @@ [session |-> cached]
    ELSE IF ~net.token[i]
    THEN [log |-> <<TokenRequest>>, raised |-> "TransportError",
          session |-> NoSession]
    ELSE LET ran == ClientFunc(call, net, i) IN
         [log |-> <<TokenRequest>> \o ran.log, raised |-> ran.raised,
          session |-> Client]

\* __async_execute_with_session: a second run with a new session after any
\* exception of the first
ExecuteWithSession(call, net, cached) ==
    LET first == Attempt(call, net, 1, cached, FALSE) IN
    IF first.raised = "" THEN first
    ELSE LET second == Attempt(call, net, 2, first.session, TRUE) IN
         [second EXCEPT !.log = first.log \o second.log]

ClientCall(name, ready, soc, device_id) ==
    [name |-> name, ready |-> ready, soc |-> soc, device_id |-> device_id]

-----------------------------------------------------------------------------
(* The action functions of OctopusIntelligentSystem                        *)

\* _get_device_state(device_id).get('preferences', {}).get(key)
\* Faulty variant of get_target_time: the weekend target time is read.
GetWeekendTargetTime(d, device_id) ==
    IF DeviceLookup(d, device_id) = NoDevice THEN NoneStr
    ELSE PreferenceGet(d.devices[DeviceLookup(d, device_id)].preferences,
                       "weekendTargetTime")

get_target_time(d, device_id) ==
    IF DeviceLookup(d, device_id) = NoDevice THEN NoneStr
    ELSE PreferenceGet(d.devices[DeviceLookup(d, device_id)].preferences,
                       "weekdayTargetTime")
get_target_soc(d, device_id) ==
    IF DeviceLookup(d, device_id) = NoDevice THEN NoSoc
    ELSE LET preferences ==
                 d.devices[DeviceLookup(d, device_id)].preferences
         IN  IF "weekdayTargetSoc" \in DOMAIN preferences
             THEN preferences["weekdayTargetSoc"] ELSE NoSoc

\* util.to_hours_after_midnight of HH:MM or HH:MM:SS, in seconds
to_hours_after_midnight(str_time) ==
    str_time.parts[1] * SecondsPerHour
      + str_time.parts[2] * SecondsPerMinute
      + (IF Len(str_time.parts) = 3 THEN str_time.parts[3] ELSE 0)

\* An action function that calls the client with call and then, if refresh,
\* self.async_refresh(): a raise of the client leaves the function at once
Act(name, device_id, call, refresh) ==
    \E net \in NetworksOf(call) :
       LET ran == ExecuteWithSession(call, net, session) IN
       /\ action' = [name |-> name, device_id |-> device_id, called |-> TRUE,
                     target |-> call.device_id, ready |-> call.ready,
                     soc |-> call.soc, raised |-> ran.raised,
                     refreshed |-> refresh /\ ran.raised = ""]
       /\ requests' = ran.log
       /\ session' = ran.session
       /\ polls' = IF refresh /\ ran.raised = "" THEN polls + 1 ELSE polls

\* The return of async_set_target_soc and async_set_target_time when the
\* other value is not in the dataset
ReturnUncalled(name, device_id) ==
    /\ action' = [NoAction EXCEPT !.name = name, !.device_id = device_id]
    /\ requests' = <<>>
    /\ UNCHANGED <<session, polls>>

actionFrame ==
    <<now, tz, off_peak_start, off_peak_end, data,
      last_seen_planned_dispatch_sources, last_seen_planned_dispatch_source,
      primary_equipment_id, poll, date_ranges, merged_date_ranges, answer,
      entity>>

\* The device_id argument of an action function
ActionDeviceIds == {NoDevice, "d1", "d2"}

async_suspend_smart_charging ==
    /\ \E device_id \in ActionDeviceIds :
         LET target_device == IF device_id # NoDevice THEN device_id
                              ELSE get_primary_equipment_id(data)
         IN  Act("async_suspend_smart_charging", device_id,
                 ClientCall("async_suspend_smart_charging", 0, NoSoc,
                            target_device),
                 FALSE)
    /\ UNCHANGED actionFrame

async_resume_smart_charging ==
    /\ \E device_id \in ActionDeviceIds :
         LET target_device == IF device_id # NoDevice THEN device_id
                              ELSE get_primary_equipment_id(data)
         IN  Act("async_resume_smart_charging", device_id,
                 ClientCall("async_resume_smart_charging", 0, NoSoc,
                            target_device),
                 FALSE)
    /\ UNCHANGED actionFrame

async_start_boost_charge ==
    /\ \E device_id \in ActionDeviceIds :
         LET target_device == IF device_id # NoDevice THEN device_id
                              ELSE get_primary_equipment_id(data)
         IN  Act("async_start_boost_charge", device_id,
                 ClientCall("async_trigger_boost_charge", 0, NoSoc,
                            target_device),
                 FALSE)
    /\ UNCHANGED actionFrame

async_cancel_boost_charge ==
    /\ \E device_id \in ActionDeviceIds :
         LET target_device == IF device_id # NoDevice THEN device_id
                              ELSE get_primary_equipment_id(data)
         IN  Act("async_cancel_boost_charge", device_id,
                 ClientCall("async_cancel_boost_charge", 0, NoSoc,
                            target_device),
                 FALSE)
    /\ UNCHANGED actionFrame

\* The options of the target SOC select and of the target time select, and
\* values outside them
SocInputs == {8, 83, 85, 100, 101}
TimeInputs ==
    { TimeStr(<<3, 30>>), TimeStr(<<3, 50>>), TimeStr(<<6, 12>>),
      TimeStr(<<6, 15>>), TimeStr(<<6, 45, 0>>), TimeStr(<<11, 15>>),
      TimeStr(<<11, 30>>) }

async_set_target_soc ==
    /\ polls < MaxPolls
    /\ \E target_soc \in SocInputs, device_id \in ActionDeviceIds :
         LET target_time_str == get_target_time(data, device_id) IN
         IF target_time_str = NoneStr
         THEN ReturnUncalled("async_set_target_soc", device_id)
         ELSE Act("async_set_target_soc", device_id,
                  ClientCall("async_set_charge_preferences",
                             to_hours_after_midnight(target_time_str),
                             target_soc,
                             IF device_id # NoDevice THEN device_id
                             ELSE get_primary_equipment_id(data)),
                  TRUE)
    /\ UNCHANGED actionFrame

async_set_target_time ==
    /\ polls < MaxPolls
    /\ \E target_time \in TimeInputs, device_id \in ActionDeviceIds :
         LET target_soc == get_target_soc(data, device_id) IN
         IF target_soc = NoSoc
         THEN ReturnUncalled("async_set_target_time", device_id)
         ELSE Act("async_set_target_time", device_id,
                  ClientCall("async_set_charge_preferences",
                             to_hours_after_midnight(target_time),
                             target_soc,
                             IF device_id # NoDevice THEN device_id
                             ELSE get_primary_equipment_id(data)),
                  TRUE)
    /\ UNCHANGED actionFrame

NextAction ==
    \/ async_suspend_smart_charging
    \/ async_resume_smart_charging
    \/ async_start_boost_charge
    \/ async_cancel_boost_charge
    \/ async_set_target_soc
    \/ async_set_target_time

\* Answers of async_get_device_preferences with the weekday targets
ActionPreferences ==
    { [status |-> EmptyDict,
       chargingPreferences |-> [weekdayTargetTime |-> TimeStr(<<7, 30>>),
                                weekdayTargetSoc |-> 80,
                                weekendTargetTime |-> TimeStr(<<9, 0>>),
                                weekendTargetSoc |-> 90]],
      [status |-> EmptyDict,
       chargingPreferences |-> [weekdayTargetTime |-> TimeStr(<<6, 12>>),
                                weekdayTargetSoc |-> 83]],
      [status |-> EmptyDict] }

\* Before the first poll, or after one poll of d1 alone or of d1 and d2
InitActions ==
    /\ tz = DefaultConfig.tz
    /\ off_peak_start = DefaultConfig.start
    /\ off_peak_end = DefaultConfig.end
    /\ now = At(1, 12, 0)
    /\ \/ /\ data = NoData
          /\ primary_equipment_id \in {NoDevice, "d1"}
          /\ polls = 0
       \/ /\ \E ids \in {<<"d1">>, <<"d1", "d2">>},
                p1 \in ActionPreferences :
               LET first == DeviceStep(Acc0, RawDevice(ids[1], TRUE, FALSE),
                                       p1, <<>>)
                   acc == IF Len(ids) = 1 THEN first
                          ELSE DeviceStep(first,
                                          RawDevice(ids[2], TRUE, FALSE),
                                          [status |-> EmptyDict], <<>>)
                   primary == _resolve_primary_equipment(acc.ids, NoDevice)
               IN  /\ data = Dataset(acc.ids, acc.device_states,
                                     acc.union_planned, primary)
                   /\ primary_equipment_id = primary
          /\ polls = 1
    /\ last_seen_planned_dispatch_sources = EmptyDict
    /\ last_seen_planned_dispatch_source = ""
    /\ poll = Idle
    /\ date_ranges = <<>>
    /\ merged_date_ranges = <<>>
    /\ InitCalls

SpecActions == InitActions /\ [][NextAction]_vars

-----------------------------------------------------------------------------
(* Vocabulary of the properties *)

MaxDay == 4         \* local days 0..MaxDay hold every window looked at

UtcNow(minutes_offset) == now + minutes_offset * SecondsPerMinute

Wraps == off_peak_end < off_peak_start

\* The instance of the fixed window that starts on local day n, in UTC
WindowInstance(n) ==
    Range(n * SecondsPerDay + off_peak_start - tz,
          (IF Wraps THEN n + 1 ELSE n) * SecondsPerDay + off_peak_end - tz)

\* The earliest daily instance whose end is at or after t
EarliestInstance(t) ==
    LET n == CHOOSE n \in 0..MaxDay :
                /\ WindowInstance(n)["end"] >= t
                /\ \A m \in 0..MaxDay :
                       m < n => WindowInstance(m)["end"] < t
    IN  WindowInstance(n)

\* Minute of the local day at now + offset
LocalMinuteOfDay(minutes_offset) ==
    ((UtcNow(minutes_offset) + tz) % SecondsPerDay) \div SecondsPerMinute

\* A stored timestamp that spells date, time and UTC offset, and the instant
\* it names
WellFormed(ts) == ts.k = "canon"
InstantOf(ts) == ts.wall - ts.off

Parses(state) == WellFormed(state.startDtUtc) /\ WellFormed(state.endDtUtc)

Brackets(state, t) ==
    /\ Parses(state)
    /\ InstantOf(state.startDtUtc) <= t
    /\ t <= InstantOf(state.endDtUtc)

IsSmartCharge(state) == state.meta["source"] = SMART_CHARGE

Suspended(d, device_id) ==
    /\ device_id \in DOMAIN d.devices
    /\ "isSuspended" \in DOMAIN d.devices[device_id].status
    /\ d.devices[device_id].status["isSuspended"]

\* The planned dispatches of a device as its device state lists them
PlannedOf(d, device_id) ==
    IF device_id \in DOMAIN d.devices
    THEN d.devices[device_id].plannedDispatches ELSE <<>>

\* The dataset with only the planned dispatches that satisfy Keep
Restrict(d, Keep(_)) ==
    [ loaded |-> d.loaded, ids |-> d.ids,
      devices |-> [k \in DOMAIN d.devices |->
                     [d.devices[k] EXCEPT !.plannedDispatches =
                           SelectSeq(d.devices[k].plannedDispatches, Keep)]],
      plannedDispatches |-> SelectSeq(d.plannedDispatches, Keep),
      primary_equipment_id |-> d.primary_equipment_id ]

\* The ranges of the parseable smart-charge dispatches of a device
RECURSIVE RangesOf(_)
RangesOf(states) ==
    IF states = <<>> THEN <<>>
    ELSE IF IsSmartCharge(Head(states)) /\ Parses(Head(states))
    THEN <<Range(InstantOf(Head(states).startDtUtc),
                 InstantOf(Head(states).endDtUtc))>>
         \o RangesOf(Tail(states))
    ELSE RangesOf(Tail(states))

-----------------------------------------------------------------------------
(* C1 - C10 *)

\* C1: with no planned dispatches the combined next_offpeak_range_utc(offset)
\* is the earliest daily instance of the fixed window whose end is at or after
\* now+offset (a wrapping window runs from off_peak_start on day N to
\* off_peak_end on day N+1); for 23:30-05:30 it is 23:30 of day 1 to 05:30 of
\* day 2 both at 23:45 of day 1 and at 04:00 of day 2, local time.
C1_FixedWindowOnly ==
    data.plannedDispatches = <<>> =>
      /\ \A off \in Offsets :
           next_offpeak_range_utc(data, off, NoDevice)
             = EarliestInstance(UtcNow(off))
      /\ ( /\ off_peak_start = At(0, 23, 30) /\ off_peak_end = At(0, 5, 30)
           /\ as_local(now) \in {At(1, 23, 45), At(2, 4, 0)} )
         => next_offpeak_range_utc(data, 0, NoDevice)
              = Range(as_utc(At(1, 23, 30)), as_utc(At(2, 5, 30)))

C1_Witness ==
    /\ data.loaded /\ data.plannedDispatches = <<>>
    /\ off_peak_start = At(0, 23, 30) /\ off_peak_end = At(0, 5, 30)
    /\ tz # 0
    /\ as_local(now) = At(2, 4, 0)
    /\ next_offpeak_range_utc(data, 0, NoDevice)["start"] = as_utc(At(1, 23, 30))

\* C2: for a list of ranges with start <= end, merge_and_sort_time_ranges
\* returns ranges in start order, each ending strictly before the next one
\* starts, that cover exactly what the inputs cover: two inputs with
\* a.end >= b.start lie inside one output range from the least start to the
\* greatest end, and inputs apart stay apart.  Coverage is compared at every
\* instant and half instant, so that a gap between two integers shows.
CoveredBy(ranges, half) ==
    \E i \in 1..Len(ranges) :
        2 * ranges[i]["start"] <= half /\ half <= 2 * ranges[i]["end"]

MergeCorrect(input, output) ==
    /\ \A i \in 1..Len(output) : output[i]["start"] <= output[i]["end"]
    /\ \A i \in 1..(Len(output) - 1) :
          output[i]["end"] < output[i + 1]["start"]
    /\ \A half \in 0..(2 * MaxTime) :
          CoveredBy(input, half) <=> CoveredBy(output, half)
    /\ \A i \in 1..Len(input) : \A j \in 1..Len(input) :
          ( input[i]["start"] <= input[j]["start"]
            /\ input[i]["end"] >= input[j]["start"] )
          => \E k \in 1..Len(output) :
                /\ output[k]["start"] <= input[i]["start"]
                /\ output[k]["end"] >= Max(input[i]["end"], input[j]["end"])
    /\ \A k \in 1..Len(output) :
          /\ \E i \in 1..Len(input) : input[i]["start"] = output[k]["start"]
          /\ \E i \in 1..Len(input) : input[i]["end"] = output[k]["end"]

C2_MergeSortedDisjointUnion ==
    [][Merge => MergeCorrect(date_ranges, merged_date_ranges')]_vars

C2_Witness ==
    /\ merged_date_ranges = <<Range(0, 2), Range(3, 3)>>
    /\ date_ranges = <<Range(3, 3), Range(1, 2), Range(0, 2)>>

\* C3: is_off_peak_time_now(offset) is decided by the local minute of day m of
\* now+offset and the two boundaries: start <= m <= end when the window does
\* not wrap (false at start-1 and at end+1), m >= start or m <= end when it
\* wraps; the dataset plays no part.
C3_ClockWindow ==
    \A off \in Offsets :
      LET m == LocalMinuteOfDay(off)
          start_mins == off_peak_start \div SecondsPerMinute
          end_mins == off_peak_end \div SecondsPerMinute
      IN  /\ end_mins >= start_mins =>
                (is_off_peak_time_now(off) <=> (start_mins <= m /\ m <= end_mins))
          /\ end_mins < start_mins =>
                (is_off_peak_time_now(off) <=> (m >= start_mins \/ m <= end_mins))
          /\ (end_mins >= start_mins /\ m \in {start_mins - 1, end_mins + 1})
                => ~ is_off_peak_time_now(off)
          /\ (end_mins >= start_mins /\ m \in {start_mins, end_mins})
                => is_off_peak_time_now(off)

C3_Witness ==
    /\ off_peak_end >= off_peak_start
    /\ LocalMinuteOfDay(60) = off_peak_end \div SecondsPerMinute + 1
    /\ LocalMinuteOfDay(0) = off_peak_end \div SecondsPerMinute - 59
    /\ is_off_peak_time_now(0) /\ ~ is_off_peak_time_now(60)
    /\ data.plannedDispatches # <<>>

\* C4: whenever a device of the dataset has a smart-charge planned dispatch
\* whose parsed start and end bracket now+offset, is_charging_now(
\* "smart-charge", offset) and is_off_peak_now(offset) are true, inside the
\* fixed window or not; is_off_peak_now(offset) is is_off_peak_time_now(offset)
\* or is_charging_now("smart-charge", offset).
C4_ActiveDispatchIsOffPeak ==
    \A off \in Offsets :
      /\ ( \E id \in DOMAIN data.devices :
             \E i \in 1..Len(PlannedOf(data, id)) :
                /\ IsSmartCharge(PlannedOf(data, id)[i])
                /\ Brackets(PlannedOf(data, id)[i], UtcNow(off)) )
         => /\ is_charging_now(data, SMART_CHARGE, off, NoDevice)
            /\ is_off_peak_now(data, off)
      /\ is_off_peak_now(data, off)
           <=> ( is_off_peak_time_now(off)
                 \/ is_charging_now(data, SMART_CHARGE, off, NoDevice) )

C4_Witness ==
    /\ \E id \in DOMAIN data.devices :
         \E i \in 1..Len(PlannedOf(data, id)) :
            /\ IsSmartCharge(PlannedOf(data, id)[i])
            /\ Brackets(PlannedOf(data, id)[i], UtcNow(60))
    /\ ~ is_off_peak_time_now(60)
    /\ ~ is_charging_now(data, SMART_CHARGE, 0, NoDevice)
    /\ is_off_peak_now(data, 60)

\* C5: the combined next_offpeak_range_utc ignores the smart-charge
\* dispatches of every device whose smart charging is suspended (its result
\* is the result on the dataset without them), and the call scoped to such a
\* device still answers from that device's own smart-charge dispatches.
OfSuspendedDevice(state) ==
    IsSmartCharge(state) /\ Suspended(data, state.meta["deviceId"])

NotOfSuspendedDevice(state) == ~ OfSuspendedDevice(state)

C5_SuspendedLeftOut ==
    \A off \in Offsets :
      /\ next_offpeak_range_utc(data, off, NoDevice)
           = next_offpeak_range_utc(Restrict(data, NotOfSuspendedDevice),
                                    off, NoDevice)
      /\ \A id \in DOMAIN data.devices :
           (Suspended(data, id) /\ RangesOf(PlannedOf(data, id)) # <<>>)
           => next_offpeak_range_utc(data, off, id)
                = FirstOffpeakRange(
                      merge_and_sort_time_ranges(RangesOf(PlannedOf(data, id))),
                      UtcNow(off))

C5_Witness ==
    \E id \in DOMAIN data.devices :
      /\ Suspended(data, id)
      /\ \E i \in 1..Len(PlannedOf(data, id)) :
            /\ IsSmartCharge(PlannedOf(data, id)[i])
            /\ Brackets(PlannedOf(data, id)[i], now)
      /\ ~ is_off_peak_time_now(0)
      /\ next_offpeak_range_utc(data, 0, NoDevice)["start"] > now
      /\ next_offpeak_range_utc(data, 0, id)["start"] <= now

\* C6: next_offpeak_range_utc scoped to a device without a parseable
\* smart-charge planned dispatch returns what the fixed windows alone give for
\* now+offset; scoped to a device with one, it answers from that device's
\* dispatches only.
C6_DeviceScope ==
    \A off \in Offsets : \A id \in DeviceArgs \ {NoDevice} :
      LET own == RangesOf(PlannedOf(data, id)) IN
      /\ own = <<>> =>
           next_offpeak_range_utc(data, off, id) = EarliestInstance(UtcNow(off))
      /\ own # <<>> =>
           next_offpeak_range_utc(data, off, id)
             = FirstOffpeakRange(merge_and_sort_time_ranges(own), UtcNow(off))

C6_Witness ==
    /\ RangesOf(PlannedOf(data, "d1")) = <<>>
    /\ PlannedOf(data, "d1") # <<>>
    /\ RangesOf(PlannedOf(data, "d2")) # <<>>
    /\ ~ Suspended(data, "d2")
    /\ next_offpeak_range_utc(data, 0, "d1")
         # next_offpeak_range_utc(data, 0, NoDevice)
    /\ next_offpeak_range_utc(data, 0, "d2")
         # next_offpeak_range_utc(data, 0, NoDevice)

\* C7: next_offpeak_range_utc returns the first merged candidate range, in
\* start order, that holds now+offset or lies ahead of it; never a range that
\* ends before now+offset; and nothing exactly when every merged range ends
\* before now+offset.
C7_FirstCurrentOrUpcoming ==
    \A off \in Offsets : \A id \in DeviceArgs :
      LET t == UtcNow(off)
          merged == merge_and_sort_time_ranges(CandidateRanges(data, t, id))
          result == next_offpeak_range_utc(data, off, id)
      IN  /\ result = NoRange
                <=> \A i \in 1..Len(merged) : merged[i]["end"] < t
          /\ result # NoRange =>
               \E i \in 1..Len(merged) :
                 /\ merged[i] = result
                 /\ result["end"] >= t
                 /\ (result["start"] <= t /\ t <= result["end"])
                      \/ t <= result["start"]
                 /\ \A j \in 1..(i - 1) :
                       /\ merged[j]["end"] < t
                       /\ merged[j]["start"] <= merged[i]["start"]

C7_Witness ==
    \E id \in DeviceArgs \ {NoDevice} :
      LET merged == merge_and_sort_time_ranges(CandidateRanges(data, now, id))
      IN  /\ Len(merged) = 2
          /\ merged[1]["end"] < now
          /\ next_offpeak_range_utc(data, 0, id) = merged[2]
          /\ merged[2]["start"] > now
          /\ next_offpeak_range_utc(data, 60, id)["start"] <= UtcNow(60)

\* C10: planned dispatch rows whose start or end is None or does not parse
\* change no answer: is_charging_now, is_off_peak_now, is_device_off_peak_now,
\* next_offpeak_range_utc and current_intelligent_charge_start_utc return what
\* they return on the dataset without those rows.
C10_BadRowsSkipped ==
    LET clean == Restrict(data, Parses) IN
    /\ \A id \in DeviceArgs :
         current_intelligent_charge_start_utc(data, id)
           = current_intelligent_charge_start_utc(clean, id)
    /\ \A off \in Offsets :
         /\ is_off_peak_now(data, off) <=> is_off_peak_now(clean, off)
         /\ \A id \in DeviceArgs :
              /\ \A source \in {None, SMART_CHARGE, BUMP_CHARGE} :
                   is_charging_now(data, source, off, id)
                     <=> is_charging_now(clean, source, off, id)
              /\ is_device_off_peak_now(data, id, off)
                   <=> is_device_off_peak_now(clean, id, off)
              /\ next_offpeak_range_utc(data, off, id)
                   = next_offpeak_range_utc(clean, off, id)

C10_Witness ==
    /\ \E i \in 1..Len(data.plannedDispatches) :
         LET state == data.plannedDispatches[i] IN
         /\ IsSmartCharge(state)
         /\ state.startDtUtc.k = "bare"
         /\ state.startDtUtc.wall <= now
         /\ WellFormed(state.endDtUtc)
         /\ now <= InstantOf(state.endDtUtc)
    /\ \E i \in 1..Len(data.plannedDispatches) :
         data.plannedDispatches[i].endDtUtc.k = "null"
    /\ ~ is_off_peak_now(data, 0)
    /\ ~ is_charging_now(data, None, 0, NoDevice)

\* The source a raw planned dispatch carries, None when it has none
RawSource(dispatch) == IF Truthy(dispatch.type) THEN dispatch.type ELSE None

\* The device whose answer the poll has just normalised, when it goes on to
\* the next device, and the batch stored for it
JustNormalised == poll.pc = "get_preferences" /\ poll.ids # <<>>
LastDevice == poll.ids[Len(poll.ids)]
LastBatch == poll.device_states[LastDevice].plannedDispatches

FallbackFor(device_id) ==
    IF device_id \in DOMAIN last_seen_planned_dispatch_sources
    THEN last_seen_planned_dispatch_sources[device_id]
    ELSE last_seen_planned_dispatch_source

\* C8: when one poll brings a device two planned dispatches, one with source
\* "smart-charge" and one without a source, both carry "smart-charge" after
\* normalisation and the device's fallback is "smart-charge"; in general a
\* dispatch of the batch without a source gets the fallback (the device's
\* before the global one) whenever there is one, also one an earlier poll
\* recorded.
C8_SourceBackfill ==
    JustNormalised =>
      /\ ( Len(LastBatch) = 2
           /\ { LastBatch[i].meta["source"] : i \in 1..2 } \ {None, ""}
                = {SMART_CHARGE} )
         => /\ \A i \in 1..2 : LastBatch[i].meta["source"] = SMART_CHARGE
            /\ LastDevice \in DOMAIN last_seen_planned_dispatch_sources
            /\ last_seen_planned_dispatch_sources[LastDevice] = SMART_CHARGE
      /\ Truthy(FallbackFor(LastDevice))
         => \A i \in 1..Len(LastBatch) : Truthy(LastBatch[i].meta["source"])

\* C9: a batch with more than one distinct non-empty source leaves the
\* device's fallback and the global fallback as they were; a batch with one
\* distinct non-empty source S leaves both equal to S; and a dispatch that
\* came with a source keeps it.  Stated for every answer the device at hand
\* may get.
C9_FallbackUpdate ==
    poll.pc = "get_dispatches" =>
      \A dispatches \in Lists(PolledDispatches, MaxPlanned) :
        LET device_id == Head(poll.devices).id
            n == _normalise_planned_dispatches(
                     device_id, dispatches,
                     last_seen_planned_dispatch_sources,
                     last_seen_planned_dispatch_source)
            distinct == { RawSource(dispatches[i]) :
                            i \in 1..Len(dispatches) } \ {None, ""}
        IN  /\ Cardinality(distinct) > 1 =>
                 /\ n.sources = last_seen_planned_dispatch_sources
                 /\ n.source = last_seen_planned_dispatch_source
            /\ \A S \in distinct :
                 Cardinality(distinct) = 1 =>
                   /\ device_id \in DOMAIN n.sources
                   /\ n.sources[device_id] = S
                   /\ n.source = S
            /\ Len(n.dispatches) = Len(dispatches)
            /\ \A i \in 1..Len(dispatches) :
                 Truthy(RawSource(dispatches[i])) =>
                   n.dispatches[i].meta["source"] = RawSource(dispatches[i])

\* An ambiguous batch has been normalised for a device that had a fallback,
\* other than the global one, from an earlier poll
C9_Witness ==
    /\ JustNormalised
    /\ Cardinality(GoodSources(LastBatch)) = 2
    /\ LastDevice \in DOMAIN last_seen_planned_dispatch_sources
    /\ last_seen_planned_dispatch_sources[LastDevice]
         # last_seen_planned_dispatch_source

-----------------------------------------------------------------------------
(* C11 - C20 *)

\* C11: a poll whose planned dispatches include an entry without a start or
\* an end still succeeds: no poll cycle ends in UpdateFailed because of such
\* an entry (the TypeError of comparing a None sort key), whatever other
\* dispatches are present.
C11_NullTimestampPollSucceeds ==
    ~ (poll.pc = "idle" /\ poll.outcome = "UpdateFailed"
       /\ poll.cause = "TypeError")

\* A poll cycle ends with this step
PollEnds == poll.pc # "idle" /\ poll'.pc = "idle"

\* C12: every poll cycle that fails (a fetch raises, no supported device, the
\* timeout, the sort) ends in UpdateFailed and in no other exception, and the
\* dataset the queries read stays the one of the last successful poll.
C12_FailedPollKeepsDataset ==
    [][ (PollEnds /\ poll'.outcome # "returned")
          => /\ poll'.outcome = "UpdateFailed"
             /\ data' = data ]_vars

\* A second poll has failed on a fetch after one device was stored, and the
\* dataset of the first poll is still there
C12_Witness ==
    /\ poll.pc = "idle" /\ poll.outcome = "UpdateFailed"
    /\ poll.cause = "TimeoutError"
    /\ polls = 2 /\ data.loaded /\ Len(data.ids) = 2
    /\ last_seen_planned_dispatch_source # ""

\* The device ids a running poll covers: those stored and those still to come
IdsOfPoll ==
    poll.ids \o [i \in 1..Len(poll.devices) |-> poll.devices[i].id]

\* Every device of the dataset has its state, and the union list holds
\* exactly the planned dispatches of the device states
Complete(d) ==
    /\ \A i \in 1..Len(d.ids) : d.ids[i] \in DOMAIN d.devices
    /\ DOMAIN d.devices = { d.ids[i] : i \in 1..Len(d.ids) }
    /\ \A id \in DOMAIN d.devices :
         LET own == d.devices[id].plannedDispatches
             listed == SelectSeq(d.plannedDispatches,
                                 LAMBDA state : state.meta["deviceId"] = id)
         IN  /\ Len(own) = Len(listed)
             /\ \A i \in 1..Len(own) :
                  \E j \in 1..Len(listed) : listed[j] = own[i]
    /\ \A i \in 1..Len(d.plannedDispatches) :
         d.plannedDispatches[i].meta["deviceId"] \in DOMAIN d.devices

C14_QueriesLeaveDataset ==
    [][ answer' # answer
          => /\ data' = data
             /\ last_seen_planned_dispatch_sources'
                  = last_seen_planned_dispatch_sources
             /\ last_seen_planned_dispatch_source'
                  = last_seen_planned_dispatch_source ]_vars

\* next_offpeak_range_utc has merged the entry of a dispatch with a later
\* range: the end of the entry was overwritten in the list handed to the
\* merge, and the row of the dispatch still has its own end
C14_Witness ==
    /\ answer.query.name = "next_offpeak_range_utc"
    /\ answer.query.device_id = "d1"
    /\ Len(date_ranges) = 2
    /\ Len(merged_date_ranges) = 1
    /\ Len(PlannedOf(data, "d1")) = 2
    /\ date_ranges[1]["start"] = InstantOf(data.plannedDispatches[1].startDtUtc)
    /\ date_ranges[1]["end"] > InstantOf(data.plannedDispatches[1].endDtUtc)

\* C15: in every successful poll, the remembered primary equipment stays
\* primary when it is among the devices of the poll; otherwise the first
\* device of the poll becomes primary and is the one remembered from then
\* on.  The dataset carries the same id.
C15_StickyPrimary ==
    [][ (PollEnds /\ poll'.outcome = "returned")
          => /\ primary_equipment_id' =
                   IF \E i \in 1..Len(IdsOfPoll) :
                          IdsOfPoll[i] = primary_equipment_id
                   THEN primary_equipment_id
                   ELSE IdsOfPoll[1]
             /\ data'.primary_equipment_id = primary_equipment_id' ]_vars

\* The configured d2 was absent from the first poll, so d1 became primary;
\* the second poll lists d2 before d1 and d1 is still primary
C15_Witness ==
    /\ polls = 2 /\ poll.pc = "idle" /\ poll.outcome = "returned"
    /\ data.ids = <<"d2", "d1">>
    /\ primary_equipment_id = "d1"
    /\ get_primary_equipment_id(data) = "d1"

\* The devices a summary call looks at
ScopeOf(q) == IF q.device_id # NoDevice THEN <<q.device_id>> ELSE data.ids

\* The raw target time of the active mode of a device in the dataset
ActiveRaw(device_id) ==
    LET key == IF Weekday(now + tz) >= 5 THEN "weekendTargetTime"
               ELSE "weekdayTargetTime"
    IN  IF device_id \in DOMAIN data.devices
           /\ key \in DOMAIN data.devices[device_id].preferences
        THEN data.devices[device_id].preferences[key]
        ELSE NoneStr

HasTarget(device_id) ==
    ActiveRaw(device_id).k = "str" /\ ActiveRaw(device_id).parts # <<>>

MinuteOfDay(device_id) ==
    ActiveRaw(device_id).parts[1] * MinutesPerHour
      + ActiveRaw(device_id).parts[2]

\* C16: get_ready_time_summary designates, among the devices in scope with
\* a non-empty target time for the active mode (weekend on local weekday 5
\* and 6), the one with the earliest HH:MM, the first in iteration order
\* among equals; active_target_time, target_device_id and the label are
\* that device's.  Without such a device active_target_time is None and no
\* device is designated.
C16_EarliestTargetWins ==
    answer.query.name = "get_ready_time_summary" =>
      LET scope == ScopeOf(answer.query)
          summary == answer.value.summary
          eligible == { i \in 1..Len(scope) : HasTarget(scope[i]) }
      IN  /\ summary.mode = IF Weekday(now + tz) >= 5 THEN "weekend"
                            ELSE "weekday"
          /\ eligible = {} =>
               /\ summary.active_target_time = NoneStr
               /\ summary.target_device_id = NoDevice
          /\ \A i \in eligible :
               ( \A j \in eligible :
                    \/ MinuteOfDay(scope[i]) < MinuteOfDay(scope[j])
                    \/ MinuteOfDay(scope[i]) = MinuteOfDay(scope[j])
                         /\ i <= j )
               => /\ summary.target_device_id = scope[i]
                  /\ summary.target_device_label = <<"Equipment", scope[i]>>
                  /\ summary.active_target_time =
                        TimeStr(SubSeq(ActiveRaw(scope[i]).parts, 1, 2))

\* On a weekday d1 has 08:00 and d2 07:30: the combined summary designates
\* d2 with 07:30
C16_Witness ==
    /\ answer.query.name = "get_ready_time_summary"
    /\ answer.query.device_id = NoDevice
    /\ Weekday(now + tz) < 5
    /\ data.ids = <<"d1", "d2">>
    /\ ActiveRaw("d1") = TimeStr(<<8, 0>>)
    /\ ActiveRaw("d2") = TimeStr(<<7, 30, 0>>)
    /\ answer.value.summary.target_device_id = "d2"
    /\ answer.value.summary.active_target_time = TimeStr(<<7, 30>>)

\* The requests of the last action that are mutations of a device
MutationOps ==
    { "setDevicePreferences", "updateDeviceSmartControl",
      "triggerBoostCharge", "deleteBoostCharge" }
MutationsSent ==
    { i \in 1..Len(requests) : requests[i].op \in MutationOps }

\* A time string HH:MM as seconds after midnight
SecondsOf(time) ==
    time.parts[1] * SecondsPerHour + time.parts[2] * SecondsPerMinute

\* C17: every setDevicePreferences mutation carries one schedule for each
\* of the seven days, all with the same time and SOC: the SOC is the
\* smallest multiple of 5 that is >= the SOC passed in, the time is a
\* multiple of half an hour at most a quarter of an hour from the time
\* passed in.
C17_MutationCarriesRoundedValues ==
    \A i \in 1..Len(requests) :
       requests[i].op = "setDevicePreferences" =>
         LET schedules == requests[i].schedules IN
         /\ Len(schedules) = 7
         /\ { schedules[k].dayOfWeek : k \in 1..Len(schedules) } =
              { "MONDAY", "TUESDAY", "WEDNESDAY", "THURSDAY", "FRIDAY",
                "SATURDAY", "SUNDAY" }
         /\ \A k \in 1..Len(schedules) :
              /\ schedules[k].max % 5 = 0
              /\ schedules[k].max >= action.soc
              /\ schedules[k].max < action.soc + 5
              /\ Len(schedules[k].time.parts) = 2
              /\ SecondsOf(schedules[k].time) % 1800 = 0
              /\ SecondsOf(schedules[k].time) - action.ready <= 900
              /\ action.ready - SecondsOf(schedules[k].time) <= 900

\* SOC 83 and 6.2 hours were passed in, and the mutation carries 85 and
\* 06:00 for Monday and for Sunday
C17_Witness ==
    /\ action.called
    /\ action.soc = 83
    /\ action.ready = 6 * SecondsPerHour + 12 * SecondsPerMinute
    /\ \E i \in 1..Len(requests) :
         /\ requests[i].op = "setDevicePreferences"
         /\ requests[i].schedules[1] =
              [dayOfWeek |-> "MONDAY", time |-> TimeStr(<<6, 0>>),
               max |-> 85]
         /\ requests[i].schedules[7] =
              [dayOfWeek |-> "SUNDAY", time |-> TimeStr(<<6, 0>>),
               max |-> 85]

\* C18: a call of async_set_charge_preferences with a SOC outside 10..100
\* or a time outside 04:00..11:00 raises the validation error to the caller
\* and sends no request at all: no token request, no device query, no
\* mutation.
C18_InvalidRejectedBeforeNetwork ==
    ( /\ action.called
      /\ action.name \in {"async_set_target_soc", "async_set_target_time"}
      /\ \/ action.soc < 10
         \/ action.soc > 100
         \/ action.ready < 4 * SecondsPerHour
         \/ action.ready > 11 * SecondsPerHour )
    => /\ requests = <<>>
       /\ action.raised = "ValueError"

\* C19: every action function that returned after calling the client (its
\* mutation succeeded) has run async_refresh.
C19_ActionsRefresh ==
    (action.called /\ action.raised = "") => action.refreshed

\* C20: an action called without a device id while no primary equipment is
\* known ends with an error and has sent no mutation.
C20_UnresolvedTargetAborts ==
    ( /\ action.name # ""
      /\ action.device_id = NoDevice
      /\ get_primary_equipment_id(data) = NoDevice )
    => /\ action.raised # ""
       /\ MutationsSent = {}

-----------------------------------------------------------------------------
(* binary_sensor.py: the module-level helpers of the slot sensors *)

SLOT_MODE_SMART_CHARGE == "smart_charge"
SLOT_MODE_OFFPEAK == "offpeak_window"

\* A system object as a helper sees it: its class, the methods getattr finds
\* on it and the boolean its queries are set to return
System(class, methods, value) ==
    [class |-> class, methods |-> methods, value |-> value]

\* The query methods class OctopusIntelligentSystem defines
OctopusIntelligentSystemMethods ==
    {"is_off_peak_charging_now", "next_offpeak_start_utc",
     "next_offpeak_end_utc", "next_offpeak_range_utc",
     "current_intelligent_charge_start_utc", "is_charging_now",
     "is_off_peak_time_now", "is_off_peak_now", "is_device_off_peak_now"}

\* The methods of the DummySystem of tests/test_binary_sensor_slots.py
DummySystemMethods ==
    {"is_off_peak_charging_now", "is_off_peak_time_now",
     "is_device_off_peak_window_now"}

Systems ==
    { System("OctopusIntelligentSystem", OctopusIntelligentSystemMethods, v)
        : v \in BOOLEAN }
    \cup { System("DummySystem", DummySystemMethods, v) : v \in BOOLEAN }

\* One call of a system method with its arguments
SystemCall(method, slot_mode, device_id, minutes_offset) ==
    [method |-> method, slot_mode |-> slot_mode, device_id |-> device_id,
     minutes_offset |-> minutes_offset]

\* _is_slot_mode_active: return octopus_system.is_slot_mode_active(slot_mode,
\* device_id=device_id, minutes_offset=minutes_offset).  The attribute lookup
\* raises AttributeError on an object without that method, before any call.
_is_slot_mode_active(octopus_system, slot_mode, device_id, minutes_offset) ==
    IF "is_slot_mode_active" \in octopus_system.methods
    THEN [calls |-> << SystemCall("is_slot_mode_active", slot_mode,
                                  device_id, minutes_offset) >>,
          raised |-> "", is_on |-> octopus_system.value]
    ELSE [calls |-> <<>>, raised |-> "AttributeError", is_on |-> FALSE]

\* binary_sensor._parse_dispatch_datetime on a string: Z is replaced by
\* +00:00 and datetime.fromisoformat reads it (T or space, offset with or
\* without colon); a value without an offset is taken as UTC; None for a
\* value that is not a string and for a string fromisoformat rejects, also
\* with T replaced by a space.
SensorParseDispatchDatetime(value) ==
    CASE value.k \in {"isoZ", "isoOff", "canon"} -> value.wall - value.off
      [] value.k \in {"naive", "bare"} -> value.wall
      [] OTHER -> NoTime

\* end_value = dispatch.get("endDtUtc") or dispatch.get("end")
EndValue(dispatch) ==
    IF dispatch.endDtUtc.k # "null" THEN dispatch.endDtUtc ELSE dispatch.end

\* if end_utc and end_utc <= current: continue
Expired(dispatch, current) ==
    LET end_utc == SensorParseDispatchDatetime(EndValue(dispatch)) IN
    end_utc # NoTime /\ end_utc <= current

\* Faulty variant of _filter_future_dispatches: an entry that ends exactly
\* at the current instant is kept.
RECURSIVE FilterEndingAfterOrAt(_, _)
FilterEndingAfterOrAt(dispatches, current) ==
    IF dispatches = <<>> THEN <<>>
    ELSE LET dispatch == Head(dispatches)
             end_utc == SensorParseDispatchDatetime(EndValue(dispatch))
             rest == FilterEndingAfterOrAt(Tail(dispatches), current)
         IN  IF end_utc # NoTime /\ end_utc < current THEN rest
             ELSE <<dispatch>> \o rest

\* _filter_future_dispatches(dispatches, now=current): [] for no dispatches;
\* otherwise every dispatch that is not expired, appended in turn
RECURSIVE _filter_future_dispatches(_, _)
_filter_future_dispatches(dispatches, current) ==
    IF dispatches = <<>> THEN <<>>
    ELSE LET rest == _filter_future_dispatches(Tail(dispatches), current)
         IN  IF Expired(Head(dispatches), current) THEN rest
             ELSE <<Head(dispatches)>> \o rest

(* SpecEntities: the helpers called on drawn arguments *)

MaxDispatches == 2  \* entries of one list handed to the filter

SlotModes == {SLOT_MODE_SMART_CHARGE, SLOT_MODE_OFFPEAK}
SlotOffsets == {0, 30, 60}

\* The instants at which the helpers run, and the end times of the entries
\* around them
EntityClock == {At(1, 11, 30), At(1, 12, 0), At(1, 12, 30)}

\* Entries of plannedDispatches as the filter reads them, a missing key
\* being the null timestamp: endDtUtc in the stored format, in the past, at
\* 12:00 UTC and ahead; endDtUtc ahead or unreadable over an end in the past;
\* end alone, T-separated with +01:00 or without offset; no end at all
FilterDispatch(endDtUtc, end) == [endDtUtc |-> endDtUtc, end |-> end]
FilterDispatches ==
    { FilterDispatch(Ts("canon", At(1, 11, 0), 0), NullTs),
      FilterDispatch(Ts("canon", At(1, 13, 0), SecondsPerHour), NullTs),
      FilterDispatch(Ts("canon", At(1, 13, 0), 0), IsoOff(At(1, 11, 0))),
      FilterDispatch(Ts("text", 0, 0), IsoOff(At(1, 11, 0))),
      FilterDispatch(NullTs, IsoOff(At(1, 11, 0))),
      FilterDispatch(NullTs, IsoOff(At(1, 13, 0))),
      FilterDispatch(NullTs, Naive(At(1, 12, 0))),
      FilterDispatch(NullTs, NullTs) }

\* A slot sensor asks whether its mode is active
SlotModeActive ==
    \E octopus_system \in Systems, slot_mode \in SlotModes,
       device_id \in DeviceArgs, minutes_offset \in SlotOffsets :
        LET r == _is_slot_mode_active(octopus_system, slot_mode, device_id,
                                      minutes_offset)
        IN  /\ entity' = [NoEntity EXCEPT
                            !.helper = "_is_slot_mode_active",
                            !.system = octopus_system.class,
                            !.slot_mode = slot_mode,
                            !.device_id = device_id,
                            !.minutes_offset = minutes_offset,
                            !.calls = r.calls,
                            !.raised = r.raised,
                            !.is_on = r.is_on]
            /\ UNCHANGED <<now, tz, off_peak_start, off_peak_end, data,
                           last_seen_planned_dispatch_sources,
                           last_seen_planned_dispatch_source,
                           primary_equipment_id, poll, polls, date_ranges,
                           merged_date_ranges, answer, action, session,
                           requests>>

\* A sensor filters a list of planned dispatches at the current instant
FilterFutureDispatches ==
    \E dispatches \in Lists(FilterDispatches, MaxDispatches) :
        /\ entity' = [NoEntity EXCEPT
                        !.helper = "_filter_future_dispatches",
                        !.dispatches = dispatches,
                        !.planned = _filter_future_dispatches(dispatches, now)]
        /\ UNCHANGED <<now, tz, off_peak_start, off_peak_end, data,
                       last_seen_planned_dispatch_sources,
                       last_seen_planned_dispatch_source,
                       primary_equipment_id, poll, polls, date_ranges,
                       merged_date_ranges, answer, action, session,
                       requests>>

NextEntity == SlotModeActive \/ FilterFutureDispatches

InitEntities ==
    /\ tz = DefaultConfig.tz
    /\ off_peak_start = DefaultConfig.start
    /\ off_peak_end = DefaultConfig.end
    /\ now \in EntityClock
    /\ data = NoData
    /\ last_seen_planned_dispatch_sources = EmptyDict
    /\ last_seen_planned_dispatch_source = ""
    /\ primary_equipment_id = NoDevice
    /\ poll = Idle
    /\ polls = 0
    /\ date_ranges = <<>>
    /\ merged_date_ranges = <<>>
    /\ InitCalls

SpecEntities == InitEntities /\ [][NextEntity]_vars

-----------------------------------------------------------------------------
(* C21 - C30 *)

\* The rows current_intelligent_charge_start_utc(id) considers: smart-charge,
\* both timestamps parse, of device id when one is given
Considered(id) ==
    { i \in 1..Len(data.plannedDispatches) :
        LET state == data.plannedDispatches[i] IN
        /\ IsSmartCharge(state)
        /\ Parses(state)
        /\ id # NoDevice => state.meta["deviceId"] = id }

StartOfRow(i) == InstantOf(data.plannedDispatches[i].startDtUtc)

\* C21: current_intelligent_charge_start_utc(id) returns the start of a
\* considered dispatch that brackets now (the first in list order) if there
\* is one; otherwise the earliest start after now among the considered
\* dispatches if there is one; otherwise next_offpeak_start_utc(id).
C21_ChargeStart ==
    \A id \in DeviceArgs :
      LET result == current_intelligent_charge_start_utc(data, id)
          current == { i \in Considered(id) :
                         Brackets(data.plannedDispatches[i], now) }
          future == { i \in Considered(id) : StartOfRow(i) > now }
      IN  /\ current # {} =>
               \E i \in current :
                  /\ result = StartOfRow(i)
                  /\ \A j \in current : i <= j
          /\ (current = {} /\ future # {}) =>
               /\ \E i \in future : result = StartOfRow(i)
               /\ \A j \in future : result <= StartOfRow(j)
          /\ (current = {} /\ future = {}) =>
               result = next_offpeak_range_utc(data, 0, id)["start"]

\* d2 has a dispatch that brackets now and d1 one that starts later: for d1
\* the later start is returned, for the combined view the current one
C21_Witness ==
    /\ Len(data.plannedDispatches) = 2
    /\ Considered(NoDevice) = {1, 2}
    /\ Considered("d1") = {2}
    /\ Brackets(data.plannedDispatches[1], now)
    /\ StartOfRow(2) > now
    /\ current_intelligent_charge_start_utc(data, "d1") = StartOfRow(2)
    /\ current_intelligent_charge_start_utc(data, NoDevice) = StartOfRow(1)

\* C22: with a single planned dispatch, smart-charge and with both
\* timestamps parseable, is_charging_now("smart-charge", offset) is true when
\* now+offset is its start and false when now+offset is its end: the
\* dispatch is the half-open interval [start, end).
C22_HalfOpenDispatch ==
    ( /\ Len(data.plannedDispatches) = 1
      /\ IsSmartCharge(data.plannedDispatches[1])
      /\ Parses(data.plannedDispatches[1]) )
    => \A off \in Offsets :
         LET state == data.plannedDispatches[1]
             start == InstantOf(state.startDtUtc)
             end == InstantOf(state.endDtUtc)
         IN  /\ (UtcNow(off) = start /\ start < end)
                  => is_charging_now(data, SMART_CHARGE, off, NoDevice)
             /\ UtcNow(off) = end
                  => ~ is_charging_now(data, SMART_CHARGE, off, NoDevice)

\* C23: merge_and_sort_time_ranges is idempotent: merging the list it
\* returned gives the same ranges in the same order.
C23_MergeIdempotent ==
    merge_and_sort_time_ranges(merged_date_ranges) = merged_date_ranges

\* Three ranges were merged into two, and merging the two changes nothing
C23_Witness ==
    /\ Len(date_ranges) = 3
    /\ merged_date_ranges = <<Range(0, 1), Range(2, 3)>>
    /\ merge_and_sort_time_ranges(merged_date_ranges) =
         <<Range(0, 1), Range(2, 3)>>

\* The one system query the tests of _is_slot_mode_active expect for a mode
\* and a device id
ExpectedQuery(slot_mode, device_id) ==
    IF slot_mode = SLOT_MODE_SMART_CHARGE THEN "is_off_peak_charging_now"
    ELSE IF device_id = NoDevice THEN "is_off_peak_time_now"
    ELSE "is_device_off_peak_window_now"

\* C24: _is_slot_mode_active decides with exactly one query of the system,
\* the one of its mode and device id, with the sensor's offset and device id,
\* and returns normally; no other system method is called.
C24_OneQueryPerSlotMode ==
    entity.helper = "_is_slot_mode_active" =>
        /\ entity.raised = ""
        /\ Len(entity.calls) = 1
        /\ entity.calls[1].method =
               ExpectedQuery(entity.slot_mode, entity.device_id)
        /\ entity.calls[1].minutes_offset = entity.minutes_offset
        /\ entity.calls[1].device_id = entity.device_id

\* The end time the filter reads from an entry, and the instant it spells
EndOf(entry) == IF entry.endDtUtc = NullTs THEN entry.end ELSE entry.endDtUtc
Readable(ts) == ts.k \notin {"null", "text"}

\* The entries of a list that are to be kept at an instant: end missing,
\* unreadable or strictly after it
KeptAt(entries, instant) ==
    { i \in 1..Len(entries) :
        \/ ~Readable(EndOf(entries[i]))
        \/ InstantOf(EndOf(entries[i])) > instant }

\* C25: _filter_future_dispatches returns, in their original order, exactly
\* the entries whose end time (endDtUtc, else end) is missing, unparseable or
\* strictly after now; an entry whose parsed end is at or before now is
\* dropped.
C25_FilterKeepsFuture ==
    entity.helper = "_filter_future_dispatches" =>
        LET kept == KeptAt(entity.dispatches, now)
            Nth(k) == CHOOSE i \in kept :
                          Cardinality({ j \in kept : j < i }) = k - 1
        IN  /\ Len(entity.planned) = Cardinality(kept)
            /\ \A k \in 1..Len(entity.planned) :
                   entity.planned[k] = entity.dispatches[Nth(k)]

\* A list of two entries filtered at 12:00: the first ends at 12:00 sharp (in
\* its end key, no offset) and is dropped, the second has no end and is kept
C25_Witness ==
    /\ entity.helper = "_filter_future_dispatches"
    /\ now = At(1, 12, 0)
    /\ Len(entity.dispatches) = 2
    /\ entity.dispatches[1] = [endDtUtc |-> NullTs, end |-> Naive(At(1, 12, 0))]
    /\ entity.dispatches[2] = [endDtUtc |-> NullTs, end |-> NullTs]
    /\ entity.planned = << entity.dispatches[2] >>

\* C26: in the combined view, is_off_peak_now(offset) is true if and only if
\* next_offpeak_range_utc(offset) returns a range that contains now+offset
\* (start <= now+offset <= end), whatever the devices' dispatches and
\* suspended flags are.  Stated for the instants on a whole minute.
C26_PointTestAgreesWithRange ==
    \A off \in Offsets :
      LET range == next_offpeak_range_utc(data, off, NoDevice) IN
      UtcNow(off) % SecondsPerMinute = 0 =>
        (is_off_peak_now(data, off)
           <=> /\ range # NoRange
               /\ range["start"] <= UtcNow(off)
               /\ UtcNow(off) <= range["end"])

\* C27 as claimed: next_offpeak_range_utc always yields a range whose end is
\* at or after now+offset, for the combined view and for every device id,
\* never nothing.
C27_AlwaysARange ==
    \A off \in Offsets : \A id \in DeviceArgs :
      LET range == next_offpeak_range_utc(data, off, id) IN
      range # NoRange /\ range["end"] >= UtcNow(off)

\* C27: a range next_offpeak_range_utc returns ends at or after now+offset;
\* the combined view always returns one; a call scoped to a device returns
\* nothing exactly when the device has parseable smart-charge planned
\* dispatches and every one of them ended before now+offset.
C27_RangeOrAllEnded ==
    \A off \in Offsets : \A id \in DeviceArgs :
      LET range == next_offpeak_range_utc(data, off, id)
          own == RangesOf(PlannedOf(data, id))
      IN  /\ range # NoRange => range["end"] >= UtcNow(off)
          /\ range = NoRange
               <=> /\ id # NoDevice
                   /\ own # <<>>
                   /\ \A i \in 1..Len(own) : own[i]["end"] < UtcNow(off)

\* The only smart-charge dispatch of d1 has ended and the dataset still holds
\* it: the call scoped to d1 returns nothing, the combined call a range
C27_Witness ==
    /\ Len(PlannedOf(data, "d1")) = 1
    /\ IsSmartCharge(PlannedOf(data, "d1")[1])
    /\ Parses(PlannedOf(data, "d1")[1])
    /\ InstantOf(PlannedOf(data, "d1")[1].endDtUtc) < now
    /\ next_offpeak_range_utc(data, 0, "d1") = NoRange
    /\ next_offpeak_range_utc(data, 0, NoDevice) # NoRange

\* C28 as claimed, for the first poll cycle of an instance: when it fails,
\* the dataset, the per-device and global dispatch-source fallbacks and the
\* remembered primary-equipment id are what they were when it started.
C28_FailedPollLeavesAllState ==
    (polls = 1 /\ poll.pc = "idle" /\ poll.outcome = "UpdateFailed")
      => /\ data = NoData
         /\ last_seen_planned_dispatch_sources = EmptyDict
         /\ last_seen_planned_dispatch_source = ""
         /\ primary_equipment_id = DefaultPrimary

\* C28: no step of a poll cycle other than its successful return changes the
\* dataset or the remembered primary-equipment id, so a cycle that fails
\* leaves both as they were when it started.  The dispatch-source fallbacks
\* change during a cycle, also one that fails later, but only when a device's
\* dispatches are normalised, and then the device's fallback and the global
\* one are left equal to one non-empty source.
C28_FailedPollKeepsDataAndPrimary ==
    [][ ( poll.pc # "idle"
          /\ ~ (poll'.pc = "idle" /\ poll'.outcome = "returned") )
        => /\ data' = data
           /\ primary_equipment_id' = primary_equipment_id
           /\ ( last_seen_planned_dispatch_sources'
                    # last_seen_planned_dispatch_sources
                \/ last_seen_planned_dispatch_source'
                    # last_seen_planned_dispatch_source )
              => /\ poll.pc = "get_dispatches"
                 /\ Truthy(last_seen_planned_dispatch_source')
                 /\ Head(poll.devices).id
                      \in DOMAIN last_seen_planned_dispatch_sources'
                 /\ last_seen_planned_dispatch_sources'[Head(poll.devices).id]
                      = last_seen_planned_dispatch_source' ]_vars

\* The first poll cycle has failed on a fetch after a device was normalised:
\* no dataset, the configured primary id, and a fallback that was not there
C28_Witness ==
    /\ polls = 1 /\ poll.pc = "idle" /\ poll.outcome = "UpdateFailed"
    /\ poll.cause = "ClientError"
    /\ data = NoData
    /\ primary_equipment_id = DefaultPrimary
    /\ last_seen_planned_dispatch_source = SMART_CHARGE
    /\ DOMAIN last_seen_planned_dispatch_sources = {"d1"}

\* The setDevicePreferences mutations of the last action, the preferences the
\* dataset holds for the device they are for, and the weekend days
PreferenceMutations ==
    { i \in 1..Len(requests) : requests[i].op = "setDevicePreferences" }
TargetPreferencesBefore ==
    IF action.target \in DOMAIN data.devices
    THEN data.devices[action.target].preferences ELSE EmptyDict
WeekendDays == {"SATURDAY", "SUNDAY"}
Near(a, b) == a - b <= 15 * SecondsPerMinute /\ b - a <= 15 * SecondsPerMinute

\* C29 as claimed: the schedules async_set_target_soc sends keep the target
\* times of the device, the weekend days its weekend target time (to the
\* half hour); those async_set_target_time sends keep the weekend target SOC
\* for the weekend days.
C29_WeekendTargetsPreserved ==
    (action.called /\ "weekendTargetTime" \in DOMAIN TargetPreferencesBefore)
    => \A i \in PreferenceMutations :
         \A k \in 1..Len(requests[i].schedules) :
           LET schedule == requests[i].schedules[k] IN
           schedule.dayOfWeek \in WeekendDays =>
             /\ action.name = "async_set_target_soc" =>
                  Near(SecondsOf(schedule.time),
                       SecondsOf(TargetPreferencesBefore["weekendTargetTime"]))
             /\ action.name = "async_set_target_time" =>
                  schedule.max = TargetPreferencesBefore["weekendTargetSoc"]

\* C29: async_set_target_soc sends, for the device it is for, the new SOC
\* with the device's weekday target time (to the half hour) for each of the
\* seven days, the weekend days included; async_set_target_time sends the new
\* time with the device's weekday target SOC (raised to a multiple of 5) for
\* each of the seven days.
C29_WeekdayTargetsForEveryDay ==
    action.called
    => \A i \in PreferenceMutations :
         /\ requests[i].device_id = action.target
         /\ \A k \in 1..Len(requests[i].schedules) :
              LET schedule == requests[i].schedules[k] IN
              /\ action.name = "async_set_target_soc" =>
                   Near(SecondsOf(schedule.time),
                        SecondsOf(TargetPreferencesBefore["weekdayTargetTime"]))
              /\ action.name = "async_set_target_time" =>
                   /\ schedule.max >= TargetPreferencesBefore["weekdayTargetSoc"]
                   /\ schedule.max
                        < TargetPreferencesBefore["weekdayTargetSoc"] + SocStep

\* async_set_target_soc(85) has returned for d1, whose weekend target time
\* is 09:00 and weekday target time 07:30: Sunday is sent with 07:30
C29_Witness ==
    /\ action.name = "async_set_target_soc"
    /\ action.called /\ action.raised = "" /\ action.target = "d1"
    /\ action.soc = 85
    /\ "weekendTargetTime" \in DOMAIN TargetPreferencesBefore
    /\ TargetPreferencesBefore["weekendTargetTime"] = TimeStr(<<9, 0>>)
    /\ \E i \in PreferenceMutations :
         requests[i].schedules[7] =
           [dayOfWeek |-> "SUNDAY", time |-> TimeStr(<<7, 30>>), max |-> 85]

\* The token requests among the requests of the last call
TokensSent == { i \in 1..Len(requests) : requests[i] = TokenRequest }

\* C30: a client call runs its request at most twice and fetches at most two
\* tokens.  With a session cached, a call that succeeds at its first attempt
\* (it returns having sent its mutation once) fetches no token, and at most
\* one token is fetched in all.  A second run of the mutation comes after a
\* token request that follows the first run, and sends the same mutation.  A
\* call that returns leaves a session cached.
C30_AtMostTwoAttempts ==
    [][ action'.called =>
          LET mutations == { i \in 1..Len(requests') :
                               requests'[i].op \in MutationOps }
              tokens == { i \in 1..Len(requests') :
                            requests'[i] = TokenRequest }
          IN  /\ Cardinality(mutations) <= 2
              /\ Cardinality(tokens) <= 2
              /\ session # NoSession =>
                   /\ Cardinality(tokens) <= 1
                   /\ (action'.raised = "" /\ Cardinality(mutations) = 1)
                        => tokens = {}
              /\ session = NoSession =>
                   (requests' # <<>> => requests'[1] = TokenRequest)
              /\ \A i \in mutations : \A j \in mutations :
                   i < j => /\ requests'[i] = requests'[j]
                            /\ \E t \in tokens : i < t /\ t < j
              /\ action'.raised = "" => session' # NoSession ]_vars

\* With a session cached the mutation failed, a new token was fetched, the
\* same mutation was sent again and failed again: the error reached the caller
C30_Witness ==
    /\ action.called /\ action.raised = "TransportError"
    /\ Len(requests) = 3
    /\ requests[1].op \in MutationOps
    /\ requests[2] = TokenRequest
    /\ requests[3] = requests[1]
    /\ TokensSent = {2}

====
